---- MODULE Spec2Model ----
(***************************************************************************)
(* Model of the Dramabox download tools (src/dramabox_downloader.py):      *)
(* the catalog crawl fetch_all_available_books, the reconciler             *)
(* menu_download_auto_all, the per-item scheduler process_book_parallel,   *)
(* the unit download download_video_file_chunked and the Excel history.    *)
(***************************************************************************)
EXTENDS Integers, Sequences, FiniteSets, TLC

(***************************************************************************)
(* Bounds of the model.                                                    *)
(***************************************************************************)
MaxPages == 5
MaxSeenPages == 3
MaxPageLen == 2
MaxIdNum == 2
MaxSize == 2
MaxUnits == 2
MaxPoolUnits == 6
MaxRuns == 2
MaxScPages == 2

(***************************************************************************)
(* Program constants.                                                      *)
(***************************************************************************)
MAX_WORKERS == 5
GET_RETRIES == 3
SC_ATTEMPTS == 5
HEAD_RETRIES == 3
PAGE_CEILING == 500
DUP_LIMIT == 2

VARIABLES
    all_books,   \* fetch_all_available_books: the result list
    seen_ids,    \* fetch_all_available_books: set of str(id) already seen
    page,        \* fetch_all_available_books: page number to request next
    max_dup,     \* fetch_all_available_books: consecutive zero-new pages
    crawl_pc,    \* "loop" while the while-True loop runs, "done" after a break
    crawl_stop,  \* which break ended the loop ("" while running)
    pageLog,     \* history: one record per page requested
    lastPage     \* history: the books of the page handled last

VARIABLES
    histFile,      \* download_history.xlsx: [state, rows]
    files,         \* the unit files on disk, by <<str(book id), unit number>>
    cur_book,      \* process_book_parallel: book_data
    pb_pc,         \* process_book_parallel: "idle", "call", "pool", "ret"
    pb_ret,        \* process_book_parallel: the value returned
    total_chapters,\* process_book_parallel: len(chapters)
    ust,           \* the futures of the executor, one record per chapter
    success_count, \* process_book_parallel: success_count
    hist0,         \* history: histFile when process_book_parallel was called
    save_state,    \* history: "none", or how save_to_history ended: "failed", "written"
    netLog         \* history: requests issued, as <<str(book id), kind>>

VARIABLES
    origin,        \* the remote service: [books, units]
    run_pc,        \* menu_download_auto_all: "idle", "crawl", "size", "confirm", "exec"
    queue,         \* menu_download_auto_all: queue
    qi,            \* menu_download_auto_all: index i of the for-loop over queue
    total_size,    \* menu_download_auto_all: total_size
    szst,          \* the size-check futures, one per queued book
    interrupted,   \* whether Ctrl+C ended the size check
    runs,          \* history: calls of menu_download_auto_all so far
    planHist,      \* history: histFile when the queue was built
    planned,       \* history: whether this run built its queue
    failedNow,     \* history: str(id) of the items with a failed unit, this run
    failedPrev     \* history: the same for the run before

VARIABLES
    rq,            \* the frame of a retrying request helper that is being called
    callLog,       \* history: the store before, and the latest save_to_history calls per book id
    wr,            \* the write of a history file that is under way: [pc, file, old, new]
    jsonFile,      \* DramaboxScraper: download_history.json: [state, data]
    sc_history,    \* DramaboxScraper.history
    sc_up,         \* whether a DramaboxScraper has been constructed
    sc,            \* DramaboxScraper: the locals of download_all and download_drama
    master_excel,  \* dramabox_master_list.xlsx: 'Episodes Downloaded' by ID
    scLog          \* history: what download_all has fetched and download_file done

auxVars == <<rq, callLog, wr, jsonFile, sc_history, sc_up, sc, master_excel, scLog>>

syncVars == <<origin, run_pc, queue, qi, total_size, szst, interrupted, runs,
              planHist, planned, failedNow, failedPrev>>

crawlVars == <<all_books, seen_ids, page, max_dup, crawl_pc, crawl_stop,
               pageLog, lastPage>>

itemVars == <<histFile, files, cur_book, pb_pc, pb_ret, total_chapters, ust,
              success_count, hist0, save_state, netLog>>

vars == <<crawlVars, itemVars, syncVars, auxVars>>

(***************************************************************************)
(* Identifiers as the JSON listing delivers them: a number or a string.    *)
(* str(id) renders a number in decimal and leaves a string alone.          *)
(***************************************************************************)
IdInt(n) == [t |-> "int", n |-> n, s |-> ""]
IdStr(s) == [t |-> "str", n |-> 0, s |-> s]
NoId == [t |-> "none", n |-> 0, s |-> ""]

Digit(d) == <<"0", "1", "2", "3", "4", "5", "6", "7", "8", "9">>[d + 1]

RECURSIVE Decimal(_)
Decimal(n) == IF n < 10 THEN Digit(n) ELSE Decimal(n \div 10) \o Digit(n % 10)

StrId(id) == IF id.t = "int" THEN Decimal(id.n) ELSE id.s

RawIds == {IdInt(n) : n \in 1..MaxIdNum} \cup {IdStr(Decimal(1))}


(***************************************************************************)
(* fetch_all_available_books                                               *)
(***************************************************************************)
\* One listing entry; chapterCount is what the listing reports for it.
Book(id, c) == [id |-> id, chapterCount |-> c]

\* Mutant of ScanPage: membership is tested on the raw id, not on str(id).
RECURSIVE ScanPageRawId(_, _, _, _, _)
ScanPageRawId(books, i, seen, acc, new) ==
    IF i > Len(books)
    THEN [seen |-> seen, all |-> acc, new |-> new, err |-> FALSE]
    ELSE IF books[i].id.t = "none"
    THEN [seen |-> seen, all |-> acc, new |-> new, err |-> TRUE]
    ELSE IF books[i].id \notin seen
         THEN ScanPageRawId(books, i + 1, seen \cup {books[i].id},
                            Append(acc, books[i]), new + 1)
         ELSE ScanPageRawId(books, i + 1, seen, acc, new)

\* The inner for-loop over one page, from entry i on.  b['id'] raises on an
\* entry without id, which the enclosing except turns into a break: err.
RECURSIVE ScanPage(_, _, _, _, _)
ScanPage(books, i, seen, acc, new) ==
    IF i > Len(books)
    THEN [seen |-> seen, all |-> acc, new |-> new, err |-> FALSE]
    ELSE IF books[i].id.t = "none"
    THEN [seen |-> seen, all |-> acc, new |-> new, err |-> TRUE]
    ELSE LET bid == StrId(books[i].id) IN
         IF bid \notin seen
         THEN ScanPage(books, i + 1, seen \cup {bid}, Append(acc, books[i]), new + 1)
         ELSE ScanPage(books, i + 1, seen, acc, new)

\* The locals of fetch_all_available_books right after lines 199-202.
CrawlBegin ==
    /\ all_books' = <<>>
    /\ seen_ids' = {}
    /\ page' = 1
    /\ max_dup' = 0
    /\ crawl_pc' = "loop"
    /\ crawl_stop' = ""
    /\ pageLog' = <<>>
    /\ lastPage' = <<>>

\* A break of the while-True loop.
CrawlBreak(why) ==
    /\ crawl_pc' = "done"
    /\ crawl_stop' = why

\* Mutant of NextMaxDup: a page with new entries does not reset the counter.
NextMaxDupNoReset(dup, new) == IF new = 0 THEN dup + 1 ELSE dup

\* The consecutive-duplicate counter after a page with `new` new entries.
NextMaxDup(dup, new) == IF new = 0 THEN dup + 1 ELSE 0

\* Whether the loop guard breaks after a page with `new` new entries.
LoopDetected(dup, new) == new = 0 /\ NextMaxDup(dup, new) >= DUP_LIMIT

\* Mutant of FetchPage: a failed page fetch throws the result away.
FetchPageDiscard(resp) ==
    /\ crawl_pc = "loop"
    /\ IF resp.kind \in {"exc", "nosuccess"}
       THEN /\ CrawlBreak(resp.kind)
            /\ all_books' = <<>>
            /\ UNCHANGED <<seen_ids, page, max_dup>>
       ELSE IF resp.books = <<>>
       THEN /\ CrawlBreak("empty")
            /\ UNCHANGED <<all_books, seen_ids, page, max_dup>>
       ELSE LET r == ScanPage(resp.books, 1, seen_ids, all_books, 0) IN
            /\ all_books' = r.all
            /\ seen_ids' = r.seen
            /\ IF r.err
               THEN /\ CrawlBreak("error")
                    /\ UNCHANGED <<page, max_dup>>
               ELSE /\ max_dup' = NextMaxDup(max_dup, r.new)
                    /\ IF LoopDetected(max_dup, r.new)
                       THEN CrawlBreak("loop") /\ UNCHANGED page
                       ELSE IF ~resp.isMore \/ page > PAGE_CEILING
                       THEN CrawlBreak(IF ~resp.isMore THEN "nomore" ELSE "ceiling")
                            /\ UNCHANGED page
                       ELSE /\ page' = page + 1
                            /\ UNCHANGED <<crawl_pc, crawl_stop>>

\* One iteration of the while-True loop on the response resp to the request
\* for `page`: kind "exc" (get_with_retry or .json() raised), "nosuccess"
\* (success missing or false) or "ok" (data.book = books, data.isMore).
FetchPage(resp) ==
    /\ crawl_pc = "loop"
    /\ IF resp.kind = "exc"
       THEN /\ CrawlBreak("exc")
            /\ UNCHANGED <<all_books, seen_ids, page, max_dup>>
       ELSE IF resp.kind = "nosuccess"
       THEN /\ CrawlBreak("nosuccess")
            /\ UNCHANGED <<all_books, seen_ids, page, max_dup>>
       ELSE IF resp.books = <<>>
       THEN /\ CrawlBreak("empty")
            /\ UNCHANGED <<all_books, seen_ids, page, max_dup>>
       ELSE LET r == ScanPage(resp.books, 1, seen_ids, all_books, 0) IN
            /\ all_books' = r.all
            /\ seen_ids' = r.seen
            /\ IF r.err
               THEN /\ CrawlBreak("error")
                    /\ UNCHANGED <<page, max_dup>>
               ELSE /\ max_dup' = NextMaxDup(max_dup, r.new)
                    /\ IF LoopDetected(max_dup, r.new)
                       THEN CrawlBreak("loop") /\ UNCHANGED page
                       ELSE IF ~resp.isMore \/ page > PAGE_CEILING
                       THEN CrawlBreak(IF ~resp.isMore THEN "nomore" ELSE "ceiling")
                            /\ UNCHANGED page
                       ELSE /\ page' = page + 1
                            /\ UNCHANGED <<crawl_pc, crawl_stop>>

(***************************************************************************)
(* The listing origin of the crawl specifications: any response.           *)
(***************************************************************************)
CrawlEntries == {Book(id, 1) : id \in RawIds \cup {NoId}}

RECURSIVE SeqsUpTo(_, _)
SeqsUpTo(S, n) ==
    IF n = 0 THEN {<<>>}
    ELSE LET shorter == SeqsUpTo(S, n - 1) IN
         shorter \cup {Append(q, x) : q \in {t \in shorter : Len(t) = n - 1}, x \in S}

CrawlResponses ==
    {[kind |-> "exc"], [kind |-> "nosuccess"]}
    \cup {[kind |-> "ok", books |-> bs, isMore |-> m] :
             bs \in SeqsUpTo(CrawlEntries, MaxPageLen), m \in BOOLEAN}

BooksOf(resp) == IF resp.kind = "ok" THEN resp.books ELSE <<>>

\* What an observer of the crawl notes for one request: the page asked for,
\* whether a non-empty page was fully handled, and how many entries the
\* result grew by.
Observed(resp) ==
    [page |-> page,
     kind |-> IF resp.kind = "ok" /\ resp.books # <<>> /\ crawl_stop' # "error"
              THEN "ok" ELSE "stop",
     new |-> Len(all_books') - Len(all_books)]

\* No call of process_book_parallel is under way and nothing is on disk.
ItemIdle ==
    /\ histFile = [state |-> "absent", rows |-> <<>>]
    /\ files = <<>>
    /\ cur_book = Book(NoId, 0)
    /\ pb_pc = "idle"
    /\ pb_ret = FALSE
    /\ total_chapters = 0
    /\ ust = <<>>
    /\ success_count = 0
    /\ hist0 = [state |-> "absent", rows |-> <<>>]
    /\ save_state = "none"
    /\ netLog = {}

\* No retrying request helper is being called.
RqIdle == [fn |-> "none", retries |-> 0, delay |-> 0, pc |-> "idle", attempt |-> 0,
           requests |-> 0, sleeps |-> <<>>, answers |-> <<>>, result |-> "none"]

\* No history file is being written.
WrIdle == [pc |-> "idle", file |-> "none", old |-> <<>>, new |-> <<>>]

\* The history _load_history falls back to (lines 39-40).
EmptyHistory == [downloaded_drama_ids |-> <<>>, downloaded_episode_ids |-> <<>>]

JsonAbsent == [state |-> "absent", data |-> EmptyHistory]

\* download_all is not running; no master list exists.
ScIdle == [pc |-> "idle", only_new |-> FALSE, excel_history |-> <<>>, page |-> 1,
           has_more |-> TRUE, dramas |-> <<>>, di |-> 0, drama_id |-> "",
           total_episodes |-> 0, ei |-> 0, downloaded_count |-> 0,
           new_episodes_found |-> FALSE]

NoDownload == [key |-> <<>>, ok |-> FALSE, requested |-> FALSE, local |-> [ex |-> FALSE, sz |-> 0]]

ScLogIdle == [seen |-> {}, repeats |-> 0, dl |-> NoDownload]

ScraperIdle ==
    /\ sc = ScIdle
    /\ master_excel = <<>>
    /\ scLog = ScLogIdle

\* No retrying request is under way, no history file is being written and
\* no DramaboxScraper has been constructed.
AuxIdle ==
    /\ rq = RqIdle
    /\ callLog = [store0 |-> [state |-> "absent", rows |-> <<>>], calls |-> <<>>]
    /\ wr = WrIdle
    /\ jsonFile = JsonAbsent
    /\ sc_history = EmptyHistory
    /\ sc_up = FALSE
    /\ ScraperIdle

\* menu_download_auto_all is not running and has not run.
SyncIdle ==
    /\ origin = [books |-> <<>>, units |-> <<>>]
    /\ run_pc = "idle"
    /\ queue = <<>>
    /\ qi = 0
    /\ total_size = 0
    /\ szst = <<>>
    /\ interrupted = FALSE
    /\ runs = 0
    /\ planHist = [state |-> "absent", rows |-> <<>>]
    /\ planned = FALSE
    /\ failedNow = {}
    /\ failedPrev = {}

InitCrawl ==
    /\ AuxIdle
    /\ ItemIdle
    /\ SyncIdle
    /\ all_books = <<>>
    /\ seen_ids = {}
    /\ page = 1
    /\ max_dup = 0
    /\ crawl_pc = "loop"
    /\ crawl_stop = ""
    /\ pageLog = <<>>
    /\ lastPage = <<>>

\* A crawl step that remembers the page it handled.
CrawlStep ==
    \E resp \in CrawlResponses :
        /\ page <= MaxSeenPages
        /\ FetchPage(resp)
        /\ lastPage' = BooksOf(resp)
        /\ UNCHANGED <<pageLog, itemVars, syncVars, auxVars>>

\* A crawl step that logs what each request contributed.
CrawlLogStep ==
    \E resp \in CrawlResponses :
        /\ page <= MaxPages
        /\ FetchPage(resp)
        /\ pageLog' = Append(pageLog, Observed(resp))
        /\ UNCHANGED <<lastPage, itemVars, syncVars, auxVars>>

NextCrawl == CrawlStep

SpecCrawl == InitCrawl /\ [][NextCrawl]_vars

NextCrawlLog == CrawlLogStep

SpecCrawlLog == InitCrawl /\ [][NextCrawlLog]_vars

(***************************************************************************)
(* Claims on the crawl.                                                    *)
(***************************************************************************)
StrIdsOf(bs) == {StrId(bs[i].id) : i \in 1..Len(bs)}

NoDupStr(bs) ==
    \A i, j \in 1..Len(bs) : i # j => StrId(bs[i].id) # StrId(bs[j].id)

\* The entries of lastPage the for-loop looked at: all of them, or those
\* before the first entry without id.
Looked(bs) ==
    LET bad == {i \in 1..Len(bs) : bs[i].id.t = "none"} IN
    IF bad = {} THEN bs
    ELSE SubSeq(bs, 1, (CHOOSE i \in bad : \A k \in bad : i <= k) - 1)

\* A page step keeps the result so far as a prefix and appends, in page
\* order, exactly the first occurrence of each identifier not seen before.
FirstSeenStep ==
    LET old == Len(all_books)
        added == SubSeq(all_books', old + 1, Len(all_books'))
        seen == Looked(lastPage')
        firsts == {i \in 1..Len(seen) :
                     /\ StrId(seen[i].id) \notin StrIdsOf(all_books)
                     /\ \A k \in 1..(i - 1) : StrId(seen[k].id) # StrId(seen[i].id)}
    IN /\ Len(all_books') >= old
       /\ SubSeq(all_books', 1, old) = all_books
       /\ Len(added) = Cardinality(firsts)
       /\ \A a \in 1..Len(added) :
             \E i \in firsts :
                /\ added[a] = seen[i]
                /\ Cardinality({k \in firsts : k < i}) = a - 1

\* C1: the list built by fetch_all_available_books never holds two entries
\* with the same str(id), and every page step extends it by the first
\* occurrences of the unseen identifiers in the order they were met, so the
\* entries stand in first-seen order.
C1_NoDupFirstSeen == [][NoDupStr(all_books') /\ FirstSeenStep]_vars

\* C1 witness: pages repeated an identifier within a page and across pages
\* (also as int 1 against string "1") and the crawl returned two entries.
C1_Witness ==
    /\ crawl_pc = "done"
    /\ Len(all_books) = 2
    /\ page >= 3
    /\ Len(lastPage) = 2
    /\ StrId(lastPage[1].id) = StrId(lastPage[2].id)
    /\ lastPage[1].id # lastPage[2].id
    /\ StrId(lastPage[1].id) = StrId(all_books[1].id)

ZeroNew(e) == e.kind = "ok" /\ e.new = 0

\* The number of zero-new pages at the end of the log.
RECURSIVE TrailingZeroNew(_)
TrailingZeroNew(log) ==
    IF log = <<>> \/ ~ZeroNew(log[Len(log)]) THEN 0
    ELSE 1 + TrailingZeroNew(SubSeq(log, 1, Len(log) - 1))

\* C2: two consecutive non-empty pages without a new identifier end the
\* crawl at the second of them (no page is requested after it), the loop
\* guard fires in no other case, and the counter is the number of zero-new
\* pages since the last page that brought a new identifier.
C2_LoopGuard ==
    /\ \A i \in 1..(Len(pageLog) - 1) :
          ZeroNew(pageLog[i]) /\ ZeroNew(pageLog[i + 1])
             => i + 1 = Len(pageLog) /\ crawl_pc = "done" /\ crawl_stop = "loop"
    /\ crawl_stop = "loop"
          => /\ Len(pageLog) >= 2
             /\ ZeroNew(pageLog[Len(pageLog)])
             /\ ZeroNew(pageLog[Len(pageLog) - 1])
    /\ crawl_stop \in {"", "loop", "nomore", "ceiling"}
          => max_dup = TrailingZeroNew(pageLog)
    /\ \A i \in 1..Len(pageLog) : pageLog[i].page = i

\* C2 witness: a zero-new page, a page with a new identifier, then two
\* zero-new pages: only the last one stops the crawl.
C2_Witness ==
    /\ crawl_stop = "loop"
    /\ Len(pageLog) = 5
    /\ ZeroNew(pageLog[2])
    /\ pageLog[3].new > 0
    /\ ZeroNew(pageLog[4])
    /\ ZeroNew(pageLog[5])

(***************************************************************************)
(* The Excel history: load_history, save_to_history, check_is_downloaded.  *)
(* A row is [BookID, TotalChapters, Status]; the Title and DownloadDate    *)
(* columns take part in no decision and are left out.                      *)
(***************************************************************************)
Row(id, n, status) == [BookID |-> id, TotalChapters |-> n, Status |-> status]

HistAbsent == [state |-> "absent", rows |-> <<>>]
HistOk(rows) == [state |-> "ok", rows |-> rows]

\* Mutant of load_history: whatever is in the file is handed back.
LoadHistoryUnguarded(h) == h.rows

\* load_history: the rows of a readable file, the empty frame otherwise.
load_history(h) == IF h.state = "ok" THEN h.rows ELSE <<>>

\* df['BookID'].astype(str)
AsStrColumn(rows) ==
    [i \in 1..Len(rows) |-> [rows[i] EXCEPT !.BookID = IdStr(StrId(rows[i].BookID))]]

RECURSIVE SelectRows(_, _, _)
SelectRows(rows, bid, keep) ==
    IF rows = <<>> THEN <<>>
    ELSE LET rest == SelectRows(Tail(rows), bid, keep) IN
         IF (Head(rows).BookID.s = bid) = keep THEN <<Head(rows)>> \o rest ELSE rest

\* check_is_downloaded: the first row whose str(BookID) is book_id, or None.
check_is_downloaded(h, book_id) ==
    LET df == AsStrColumn(load_history(h))
        result == SelectRows(df, book_id, TRUE)
    IN IF df = <<>> \/ result = <<>>
       THEN [found |-> FALSE, rec |-> Row(NoId, 0, "")]
       ELSE [found |-> TRUE, rec |-> result[1]]

\* Mutant of SavedRows: the new row is appended and no old row removed.
SavedRowsAppend(h, book_id, total, status) ==
    Append(AsStrColumn(load_history(h)), Row(IdStr(book_id), total, status))

\* The frame save_to_history hands to to_excel.
SavedRows(h, book_id, total, status) ==
    LET df == AsStrColumn(load_history(h)) IN
    Append(SelectRows(df, book_id, FALSE), Row(IdStr(book_id), total, status))

\* save_to_history; to_excel either writes the frame or raises, which the
\* bare except swallows and which leaves the file as it was.
save_to_history(h, book_id, total, status, written) ==
    IF written THEN HistOk(SavedRows(h, book_id, total, status)) ELSE h

(***************************************************************************)
(* get_file_size and download_video_file_chunked                           *)
(***************************************************************************)
NoFile == [ex |-> FALSE, sz |-> 0]
File(sz) == [ex |-> TRUE, sz |-> sz]

LocalFile(key) == IF key \in DOMAIN files THEN files[key] ELSE NoFile

WriteFile(key, f) ==
    [k \in DOMAIN files \cup {key} |-> IF k = key THEN f ELSE files[k]]

\* get_file_size: head is what get_head_with_retry returned ("none" after
\* its retries), get is the outcome of the streamed GET fallback; cl is
\* int(headers.get('content-length', 0)).
get_file_size(head, get) ==
    IF head.kind = "none" \/ head.status # 200
    THEN IF get.kind = "exc" THEN 0 ELSE get.cl
    ELSE head.cl

\* Mutant of download_video_file_chunked: the skip test lacks remote_size > 0.
DownloadNoSizeGuard(local, remote_size, x) ==
    IF local.ex /\ local.sz = remote_size
    THEN [ok |-> TRUE, skipped |-> TRUE, attempts |-> 0, file |-> local]
    ELSE IF x.kind \in {"ok", "http_err"}
    THEN [ok |-> TRUE, skipped |-> FALSE, attempts |-> 1, file |-> File(x.sz)]
    ELSE IF x.kind = "exc_before"
    THEN [ok |-> FALSE, skipped |-> FALSE, attempts |-> 1, file |-> local]
    ELSE [ok |-> FALSE, skipped |-> FALSE, attempts |-> 1, file |-> File(x.sz)]

\* Mutant of download_video_file_chunked: a failed transfer is tried again
\* and the second try decides.
DownloadRetry(local, remote_size, x) ==
    IF local.ex /\ remote_size > 0 /\ local.sz = remote_size
    THEN [ok |-> TRUE, skipped |-> TRUE, attempts |-> 0, file |-> local]
    ELSE IF x.kind \in {"ok", "http_err"}
    THEN [ok |-> TRUE, skipped |-> FALSE, attempts |-> 1, file |-> File(x.sz)]
    ELSE [ok |-> TRUE, skipped |-> FALSE, attempts |-> 2, file |-> File(x.sz)]

\* download_video_file_chunked on a unit whose local file is `local`, with
\* the probed remote_size and the transfer outcome x:
\*   "ok"         the GET answered 200 and x.sz bytes were written;
\*   "http_err"   the GET answered an error status; its body of x.sz bytes
\*                is written all the same (no status check);
\*   "exc_before" requests.get or open raised: the file is untouched;
\*   "exc_mid"    iter_content or write raised after x.sz bytes.
download_video_file_chunked(local, remote_size, x) ==
    IF local.ex /\ remote_size > 0 /\ local.sz = remote_size
    THEN [ok |-> TRUE, skipped |-> TRUE, attempts |-> 0, file |-> local]
    ELSE IF x.kind \in {"ok", "http_err"}
    THEN [ok |-> TRUE, skipped |-> FALSE, attempts |-> 1, file |-> File(x.sz)]
    ELSE IF x.kind = "exc_before"
    THEN [ok |-> FALSE, skipped |-> FALSE, attempts |-> 1, file |-> local]
    ELSE [ok |-> FALSE, skipped |-> FALSE, attempts |-> 1, file |-> File(x.sz)]

(***************************************************************************)
(* process_book_parallel                                                   *)
(***************************************************************************)
book_id == StrId(cur_book.id)

Queued == [st |-> "queued", ok |-> FALSE, skipped |-> FALSE, attempts |-> 0,
           remote_size |-> 0, xfer |-> "none"]

UnitsIn(st) == {u \in 1..Len(ust) : ust[u].st = st}

\* The chapters a worker thread is busy with.
InProgress == UnitsIn("running") \cup UnitsIn("probed")

\* Mutant of CallReturned: the caller goes on while the pool still works.
CallReturnedEarly == pb_pc # "call"

\* Mutant of CallReturned: the caller goes on only after a call that
\* returned True.
CallReturnedOk == pb_pc = "idle" \/ (pb_pc = "ret" /\ pb_ret)

\* process_book_parallel is an ordinary call in the caller's thread (lines
\* 296, 373): the caller makes the next call only when no call is under
\* way.
CallReturned == pb_pc \in {"idle", "ret"}

\* The call itself: lines 139-140.
PBCall(book) ==
    /\ CallReturned
    /\ cur_book' = book
    /\ pb_pc' = "call"
    /\ pb_ret' = FALSE
    /\ total_chapters' = 0
    /\ ust' = <<>>
    /\ success_count' = 0
    /\ hist0' = histFile
    /\ save_state' = "none"
    /\ UNCHANGED <<histFile, files, netLog>>

\* Lines 142-178: the detail request and, when it delivers chapters, the
\* submission of every chapter to the executor.  resp.kind is "exc"
\* (get_with_retry or .json() raised), "nosuccess" or "ok" with resp.n
\* chapters.
PBDetail(resp) ==
    /\ pb_pc = "call"
    /\ netLog' = netLog \cup {<<book_id, "detail">>}
    /\ IF resp.kind # "ok" \/ resp.n = 0
       THEN /\ pb_pc' = "ret"
            /\ pb_ret' = FALSE
            /\ UNCHANGED <<total_chapters, ust, success_count>>
       ELSE /\ pb_pc' = "pool"
            /\ total_chapters' = resp.n
            /\ ust' = [u \in 1..resp.n |-> Queued]
            /\ success_count' = 0
            /\ UNCHANGED pb_ret
    /\ UNCHANGED <<histFile, files, cur_book, hist0, save_state>>

\* Mutant of CanStart: the pool has no limit.
CanStartUnbounded(running) == TRUE

\* ThreadPoolExecutor(max_workers=MAX_WORKERS): a queued call starts only
\* while fewer than MAX_WORKERS are running.
CanStart(running) == running < MAX_WORKERS

\* Mutant of WorkerTakes: once a unit has failed, no further chapter is
\* taken off the work queue.
WorkerTakesUnlessFailed(u) ==
    /\ u \in UnitsIn("queued")
    /\ \A v \in UnitsIn("queued") : u <= v
    /\ \A v \in UnitsIn("done") \cup UnitsIn("counted") : ust[v].ok

\* The executor's work queue is first-in first-out over the chapters in
\* the order of their submission (line 177); nothing but being taken
\* removes a chapter from it.
WorkerTakes(u) ==
    /\ u \in UnitsIn("queued")
    /\ \A v \in UnitsIn("queued") : u <= v

\* A worker thread takes the oldest queued chapter off the work queue.
StartUnit(u) ==
    /\ pb_pc = "pool"
    /\ WorkerTakes(u)
    /\ CanStart(Cardinality(InProgress))
    /\ ust' = [ust EXCEPT ![u].st = "running"]
    /\ UNCHANGED <<histFile, files, cur_book, pb_pc, pb_ret, total_chapters,
                   success_count, hist0, save_state, netLog>>

\* The worker's call of download_video_file_chunked for chapter u resolves
\* the remote size (line 76).
ProbeUnit(u, head, get) ==
    /\ pb_pc = "pool"
    /\ u \in UnitsIn("running")
    /\ ust' = [ust EXCEPT ![u].st = "probed",
                          ![u].remote_size = get_file_size(head, get)]
    /\ netLog' = netLog \cup {<<book_id, "probe">>}
    /\ UNCHANGED <<histFile, files, cur_book, pb_pc, pb_ret, total_chapters,
                   success_count, hist0, save_state>>

\* The call goes on from the skip test to its return (lines 77-96).
TransferUnit(u, x) ==
    /\ pb_pc = "pool"
    /\ u \in UnitsIn("probed")
    /\ LET key == <<book_id, u>>
           r == download_video_file_chunked(LocalFile(key), ust[u].remote_size, x)
       IN /\ ust' = [ust EXCEPT ![u] =
                        [st |-> "done", ok |-> r.ok, skipped |-> r.skipped,
                         attempts |-> r.attempts, remote_size |-> 0,
                         xfer |-> IF r.attempts = 0 THEN "none" ELSE x.kind]]
          /\ files' = IF r.file = LocalFile(key) THEN files ELSE WriteFile(key, r.file)
          /\ netLog' = netLog \cup
                         (IF r.attempts > 0 THEN {<<book_id, "transfer">>} ELSE {})
    /\ UNCHANGED <<histFile, cur_book, pb_pc, pb_ret, total_chapters,
                   success_count, hist0, save_state>>

\* Mutant of Tally: a failed unit is counted too.
TallyAll(count, ok) == count + 1

\* Lines 184-186: the main thread adds a finished future to the count.
Tally(count, ok) == IF ok THEN count + 1 ELSE count

\* as_completed hands a finished future to the main thread.
Collect(u) ==
    /\ pb_pc = "pool"
    /\ u \in UnitsIn("done")
    /\ ust' = [ust EXCEPT ![u].st = "counted"]
    /\ success_count' = Tally(success_count, ust[u].ok)
    /\ UNCHANGED <<histFile, files, cur_book, pb_pc, pb_ret, total_chapters,
                   hist0, save_state, netLog>>

\* Mutant of ItemStatus: any success makes the item Completed.
ItemStatusAlwaysCompleted(count, total) == "Completed"

\* Line 190.
ItemStatus(count, total) == IF count < total THEN "Partial" ELSE "Completed"

\* Mutant of ShouldSave: the history is written for every item.
ShouldSaveAlways(count) == TRUE

\* Line 191.
ShouldSave(count) == count > 0

\* Mutant of PoolDrained: the main thread goes on after the first result.
PoolDrainedFirst == UnitsIn("counted") # {}

\* The for-loop over as_completed (line 183) ends when every future has
\* been yielded, and the with-block of the executor (line 167) is left
\* only then.
PoolDrained == UnitsIn("counted") = 1..Len(ust)

\* Lines 189-195, once as_completed is exhausted and the executor has shut
\* down; `written` is whether to_excel succeeded.
PBSave(written) ==
    /\ pb_pc = "pool"
    /\ PoolDrained
    /\ IF ShouldSave(success_count)
       THEN /\ histFile' = save_to_history(histFile, book_id, total_chapters,
                               ItemStatus(success_count, total_chapters), written)
            /\ save_state' = IF written THEN "written" ELSE "failed"
       ELSE /\ written
            /\ UNCHANGED <<histFile, save_state>>
    /\ pb_pc' = "ret"
    /\ pb_ret' = TRUE
    /\ UNCHANGED <<files, cur_book, total_chapters, ust, success_count, hist0, netLog>>

(***************************************************************************)
(* The origin as the unit downloads see it.                                *)
(***************************************************************************)
Sizes == 0..MaxSize

Heads ==
    {[kind |-> "none", status |-> 0, cl |-> 0], [kind |-> "resp", status |-> 405, cl |-> 0]}
    \cup {[kind |-> "resp", status |-> 200, cl |-> c] : c \in Sizes}

Gets == {[kind |-> "exc", cl |-> 0]} \cup {[kind |-> "resp", cl |-> c] : c \in Sizes}

\* Every answer to the size probe (the GET fallback is drawn only when the
\* HEAD answer makes get_file_size use it).
Probes ==
    {<<h, g>> : h \in {x \in Heads : x.status = 200}, g \in {[kind |-> "exc", cl |-> 0]}}
    \cup {<<h, g>> : h \in {x \in Heads : x.status # 200}, g \in Gets}

Xfers ==
    {[kind |-> "exc_before", sz |-> 0]}
    \cup {[kind |-> k, sz |-> c] : k \in {"ok", "http_err", "exc_mid"}, c \in Sizes}

\* An origin that reports the true size MaxSize or no size, and delivers the
\* whole body or fails before or right after opening the file.
PlainProbes ==
    {<<[kind |-> "resp", status |-> 200, cl |-> MaxSize], [kind |-> "exc", cl |-> 0]>>,
     <<[kind |-> "none", status |-> 0, cl |-> 0], [kind |-> "exc", cl |-> 0]>>}

PlainXfers ==
    {[kind |-> "ok", sz |-> MaxSize], [kind |-> "exc_before", sz |-> 0],
     [kind |-> "exc_mid", sz |-> 0]}

DetailResponses(maxn) ==
    {[kind |-> "exc", n |-> 0], [kind |-> "nosuccess", n |-> 0]}
    \cup {[kind |-> "ok", n |-> n] : n \in 0..maxn}

CrawlIdle ==
    /\ all_books = <<>>
    /\ seen_ids = {}
    /\ page = 1
    /\ max_dup = 0
    /\ crawl_pc = "idle"
    /\ crawl_stop = ""
    /\ pageLog = <<>>
    /\ lastPage = <<>>

\* process_book_parallel has just been called on `book`.
ItemCalled(book) ==
    /\ cur_book = book
    /\ pb_pc = "call"
    /\ pb_ret = FALSE
    /\ total_chapters = 0
    /\ ust = <<>>
    /\ success_count = 0
    /\ hist0 = histFile
    /\ save_state = "none"
    /\ netLog = {}

ItemBook == Book(IdInt(1), 1)

KeysOf(book, n) == {<<StrId(book.id), u>> : u \in 1..n}

FileStates == {NoFile} \cup {File(c) : c \in Sizes}

ItemStart == \E u \in 1..Len(ust) : StartUnit(u) /\ UNCHANGED <<crawlVars, syncVars, auxVars>>

ItemCollect == \E u \in 1..Len(ust) : Collect(u) /\ UNCHANGED <<crawlVars, syncVars, auxVars>>

ItemSave == \E written \in BOOLEAN : PBSave(written) /\ UNCHANGED <<crawlVars, syncVars, auxVars>>

(***************************************************************************)
(* One unit: process_book_parallel on a book of at most one chapter, any   *)
(* local file and any answer of the origin.                                *)
(***************************************************************************)
UnitBooks == {Book(IdInt(1), 1), Book(IdStr(Decimal(1)), 1)}

InitUnit ==
    /\ AuxIdle
    /\ CrawlIdle
    /\ SyncIdle
    /\ histFile = HistAbsent
    /\ files \in [KeysOf(ItemBook, 1) -> FileStates]
    /\ \E b \in UnitBooks : ItemCalled(b)

UnitDetail == \E resp \in DetailResponses(1) : PBDetail(resp) /\ UNCHANGED <<crawlVars, syncVars, auxVars>>

UnitProbe ==
    \E u \in 1..Len(ust), pr \in Probes :
        ProbeUnit(u, pr[1], pr[2]) /\ UNCHANGED <<crawlVars, syncVars, auxVars>>

UnitTransfer == \E u \in 1..Len(ust), x \in Xfers : TransferUnit(u, x) /\ UNCHANGED <<crawlVars, syncVars, auxVars>>

NextUnit ==
    \/ UnitDetail
    \/ ItemStart
    \/ UnitProbe
    \/ UnitTransfer
    \/ ItemCollect
    \/ ItemSave

SpecUnit == InitUnit /\ [][NextUnit]_vars

(***************************************************************************)
(* One item: process_book_parallel (menu entry 1, "Manual ID") on a book   *)
(* of up to MaxUnits chapters, on a disk and a history left by earlier     *)
(* runs.                                                                   *)
(***************************************************************************)
OwnRows == {Row(IdInt(1), 1, "Partial"), Row(IdStr(Decimal(1)), MaxUnits, "Completed")}

OtherRow == Row(IdInt(2), 1, "Completed")

ItemHists ==
    {HistAbsent, [state |-> "corrupt", rows |-> <<>>], HistOk(<<OtherRow>>)}
    \cup {HistOk(<<r>>) : r \in OwnRows}
    \cup {HistOk(<<r, OtherRow>>) : r \in OwnRows}
    \cup {HistOk(<<OtherRow, r>>) : r \in OwnRows}

PlainFileStates == {NoFile, File(0), File(MaxSize)}

InitItem ==
    /\ AuxIdle
    /\ CrawlIdle
    /\ SyncIdle
    /\ \/ /\ histFile \in ItemHists
          /\ \E f \in PlainFileStates : files = [k \in KeysOf(ItemBook, MaxUnits) |-> f]
       \/ /\ histFile = HistAbsent
          /\ files \in [KeysOf(ItemBook, MaxUnits) -> PlainFileStates]
    /\ ItemCalled(ItemBook)

ItemDetail == \E resp \in DetailResponses(MaxUnits) : PBDetail(resp) /\ UNCHANGED <<crawlVars, syncVars, auxVars>>

ItemProbe ==
    \E u \in 1..Len(ust), pr \in PlainProbes :
        ProbeUnit(u, pr[1], pr[2]) /\ UNCHANGED <<crawlVars, syncVars, auxVars>>

ItemTransfer ==
    \E u \in 1..Len(ust), x \in PlainXfers : TransferUnit(u, x) /\ UNCHANGED <<crawlVars, syncVars, auxVars>>

NextItem ==
    \/ ItemDetail
    \/ ItemStart
    \/ ItemProbe
    \/ ItemTransfer
    \/ ItemCollect
    \/ ItemSave

SpecItem == InitItem /\ [][NextItem]_vars

\* The same, with threads that keep running and requests that return or
\* raise within their timeouts.
SpecItemFair == InitItem /\ [][NextItem]_vars /\ WF_vars(NextItem)

(***************************************************************************)
(* The pool: process_book_parallel on a book of up to MaxPoolUnits         *)
(* chapters, none of them on disk, each transfer succeeding or failing.    *)
(***************************************************************************)
PoolProbes ==
    {<<[kind |-> "resp", status |-> 200, cl |-> MaxSize], [kind |-> "exc", cl |-> 0]>>}

PoolXfers == {[kind |-> "ok", sz |-> MaxSize], [kind |-> "exc_before", sz |-> 0]}

InitPool ==
    /\ AuxIdle
    /\ CrawlIdle
    /\ SyncIdle
    /\ histFile = HistAbsent
    /\ files = <<>>
    /\ ItemCalled(ItemBook)

PoolDetail ==
    \E resp \in DetailResponses(MaxPoolUnits) : PBDetail(resp) /\ UNCHANGED <<crawlVars, syncVars, auxVars>>

PoolProbe ==
    \E u \in 1..Len(ust), pr \in PoolProbes :
        ProbeUnit(u, pr[1], pr[2]) /\ UNCHANGED <<crawlVars, syncVars, auxVars>>

PoolTransfer ==
    \E u \in 1..Len(ust), x \in PoolXfers : TransferUnit(u, x) /\ UNCHANGED <<crawlVars, syncVars, auxVars>>

NextPool ==
    \/ PoolDetail
    \/ ItemStart
    \/ PoolProbe
    \/ PoolTransfer
    \/ ItemCollect
    \/ ItemSave

SpecPool == InitPool /\ [][NextPool]_vars

(***************************************************************************)
(* Claims on the unit download and on process_book_parallel.               *)
(***************************************************************************)
UnitKey(u) == <<book_id, u>>

\* Chapter u goes from its probe to its result in this step.
Transfers(u) == ust[u].st = "probed" /\ ust'[u].st = "done"

\* C6: a unit is classified skipped exactly when its local file exists, the
\* resolved remote size is positive and both sizes are equal; a skipped
\* unit counts as success, leaves the file alone and issues no body
\* transfer; a remote size of 0 never skips.
C6_SkipIff ==
    [][\A u \in 1..Len(ust) :
         Transfers(u) =>
            LET local == LocalFile(UnitKey(u))
                remote_size == ust[u].remote_size
            IN /\ ust'[u].skipped <=>
                     (local.ex /\ remote_size > 0 /\ local.sz = remote_size)
               /\ ust'[u].skipped =>
                     /\ ust'[u].ok
                     /\ ust'[u].attempts = 0
                     /\ files' = files
                     /\ <<book_id, "transfer">> \notin netLog'
               /\ ~ust'[u].skipped =>
                     /\ ust'[u].attempts >= 1
                     /\ <<book_id, "transfer">> \in netLog'
               /\ remote_size = 0 => ~ust'[u].skipped]_vars

\* C6 witness: a unit whose complete file was on disk came back skipped,
\* with no transfer logged.
C6_Witness ==
    /\ Len(ust) = 1
    /\ ust[1].st = "done"
    /\ ust[1].skipped
    /\ LocalFile(UnitKey(1)) = File(MaxSize)
    /\ <<book_id, "transfer">> \notin netLog

Settled(u) == ust[u].st \in {"done", "counted"}

\* C7: a unit whose file is absent gets one transfer attempt and is
\* classified by it alone (success when it ran through, failure when it
\* raised); once a unit has its result it is never queued or run again and
\* the result and the attempt count stay as they are, whatever the other
\* units do.
C7_OneAttempt ==
    [][\A u \in 1..Len(ust) :
         /\ (Transfers(u) /\ ~LocalFile(UnitKey(u)).ex) =>
               /\ ust'[u].attempts = 1
               /\ ~ust'[u].skipped
               /\ ust'[u].xfer = "ok" => ust'[u].ok
               /\ ust'[u].xfer \in {"exc_before", "exc_mid"} => ~ust'[u].ok
         /\ Settled(u) =>
               /\ Len(ust') = Len(ust)
               /\ ust'[u].st \in {"done", "counted"}
               /\ ust'[u].ok = ust[u].ok
               /\ ust'[u].attempts = ust[u].attempts
               /\ ust'[u].attempts <= 1]_vars

\* C7 witness: of two units without local file the first failed and the
\* second succeeded, each on its one attempt, and the call has returned.
C7_Witness ==
    /\ pb_pc = "ret"
    /\ Len(ust) = 2
    /\ ~LocalFile(UnitKey(1)).ex
    /\ ust[1].xfer = "exc_before" /\ ~ust[1].ok /\ ust[1].attempts = 1
    /\ hist0 = HistAbsent
    /\ ust[2].xfer = "ok" /\ ust[2].ok /\ ust[2].attempts = 1

\* The units whose download returned success (transferred or skipped).
Succeeded == {u \in 1..Len(ust) : ust[u].ok}

RowsFor(h, bid) == {i \in 1..Len(h.rows) : StrId(h.rows[i].BookID) = bid}

\* C8: a history record written by process_book_parallel for an item of n
\* units, s of them successful, is the one record of that item: BookID
\* str(id), TotalChapters n, Status Completed when s = n and Partial
\* otherwise; and it is written only when s > 0.
C8_RecordWritten ==
    (pb_pc = "ret" /\ save_state = "written") =>
        LET n == Len(ust)
            s == Cardinality(Succeeded)
            own == RowsFor(histFile, book_id)
        IN /\ s > 0
           /\ histFile.state = "ok"
           /\ Cardinality(own) = 1
           /\ \A i \in own :
                 /\ histFile.rows[i].BookID = IdStr(book_id)
                 /\ histFile.rows[i].TotalChapters = n
                 /\ histFile.rows[i].Status = "Completed" <=> s = n
                 /\ histFile.rows[i].Status = "Partial" <=> s < n

\* C8 witness: an item of two units with no history, both transfers
\* succeeded, and the store holds {id, 2, Completed}.
C8_Witness ==
    /\ pb_pc = "ret"
    /\ save_state = "written"
    /\ hist0 = HistAbsent
    /\ Len(ust) = 2
    /\ \A u \in 1..2 : ust[u].xfer = "ok" /\ ust[u].attempts = 1
    /\ histFile = HistOk(<<Row(IdStr(book_id), 2, "Completed")>>)

\* The units for which a body transfer was performed.
Transferred == {u \in 1..Len(ust) : ust[u].attempts >= 1}

\* C9 as claimed: the history is upserted exactly when a unit transfer was
\* performed, and is unchanged when none was.
C9_Original ==
    pb_pc = "ret" =>
        /\ save_state # "none" <=> Transferred # {}
        /\ Transferred = {} => histFile = hist0

\* C9 as the code has it: save_to_history is called exactly when at least
\* one unit returned success, a skipped unit included; before the call
\* returns and whenever nothing was written the store is as it was.
C9_SaveIffSuccess ==
    /\ pb_pc = "ret" => (save_state # "none" <=> Succeeded # {})
    /\ pb_pc \in {"call", "pool"} => save_state = "none"
    /\ save_state # "written" => histFile = hist0

\* C9 witness: every unit was skipped as already complete, no transfer was
\* made, and the record was upserted all the same.
C9_Witness ==
    /\ pb_pc = "ret"
    /\ Len(ust) = 2
    /\ \A u \in 1..2 : ust[u].skipped
    /\ Transferred = {}
    /\ save_state = "written"
    /\ histFile # hist0

\* C10: never more than MAX_WORKERS unit downloads of the item in progress.
C10_BoundedWorkers == Cardinality(InProgress) <= MAX_WORKERS

\* C10 witness: MAX_WORKERS downloads in progress while a further chapter
\* waits in the queue.
C10_Witness ==
    /\ Cardinality(InProgress) = MAX_WORKERS
    /\ UnitsIn("queued") # {}

(***************************************************************************)
(* menu_download_auto_all                                                  *)
(***************************************************************************)
\* Mutant of NeedsDownload: an unchanged chapter count queues the item too.
NeedsDownloadGE(b, h) ==
    LET hist == check_is_downloaded(h, StrId(b.id)) IN
    ~hist.found \/ b.chapterCount >= hist.rec.TotalChapters

\* Mutant of NeedsDownload: an item recorded as Partial is queued again.
NeedsDownloadPartial(b, h) ==
    LET hist == check_is_downloaded(h, StrId(b.id)) IN
    \/ ~hist.found
    \/ b.chapterCount > hist.rec.TotalChapters
    \/ hist.rec.Status = "Partial"

\* Line 252: the test that puts a book in the queue.
NeedsDownload(b, h) ==
    LET hist == check_is_downloaded(h, StrId(b.id)) IN
    ~hist.found \/ b.chapterCount > hist.rec.TotalChapters

\* Lines 247-253: the filter loop over all_books.
RECURSIVE BuildQueue(_, _)
BuildQueue(books, h) ==
    IF books = <<>> THEN <<>>
    ELSE IF NeedsDownload(Head(books), h)
    THEN <<Head(books)>> \o BuildQueue(Tail(books), h)
    ELSE BuildQueue(Tail(books), h)

\* A return of menu_download_auto_all: its locals are gone.
RunReturn ==
    /\ run_pc' = "idle"
    /\ qi' = 0
    /\ total_size' = 0
    /\ szst' = <<>>
    /\ interrupted' = FALSE

\* The menu calls menu_download_auto_all, which calls
\* fetch_all_available_books.
RunStart ==
    /\ run_pc = "idle"
    /\ runs < MaxRuns
    /\ runs' = runs + 1
    /\ run_pc' = "crawl"
    /\ CrawlBegin
    /\ queue' = <<>>
    /\ planned' = FALSE
    /\ planHist' = histFile
    /\ failedPrev' = failedNow
    /\ failedNow' = {}
    /\ netLog' = {}
    /\ UNCHANGED <<origin, qi, total_size, szst, interrupted, auxVars>>
    /\ UNCHANGED <<histFile, files, cur_book, pb_pc, pb_ret, total_chapters, ust,
                   success_count, hist0, save_state>>

\* Lines 243-259: the crawl has returned; the queue is built.
Plan ==
    /\ run_pc = "crawl"
    /\ crawl_pc = "done"
    /\ IF all_books = <<>>
       THEN /\ RunReturn
            /\ UNCHANGED <<queue, planned, planHist>>
       ELSE /\ queue' = BuildQueue(all_books, histFile)
            /\ planned' = TRUE
            /\ planHist' = histFile
            /\ IF queue' = <<>>
               THEN RunReturn
               ELSE /\ run_pc' = "size"
                    /\ szst' = [i \in 1..Len(queue') |-> [st |-> "pending", size |-> 0]]
                    /\ total_size' = 0
                    /\ interrupted' = FALSE
                    /\ UNCHANGED qi
    /\ UNCHANGED <<origin, runs, failedNow, failedPrev, crawlVars, itemVars, auxVars>>

\* get_book_size run by a size-check thread for queued book i: the detail
\* request and, when it answers, a get_file_size per chapter (res.size in
\* all); any exception yields 0.
SizeProbe(i, res) ==
    /\ run_pc = "size"
    /\ i \in 1..Len(szst)
    /\ szst[i].st = "pending"
    /\ szst' = [szst EXCEPT ![i] = [st |-> "done", size |-> res.size]]
    /\ netLog' = netLog \cup {<<StrId(queue[i].id), "detail">>}
                   \cup (IF res.kind = "ok" THEN {<<StrId(queue[i].id), "probe">>} ELSE {})
    /\ UNCHANGED <<origin, run_pc, queue, qi, total_size, interrupted, runs,
                   planHist, planned, failedNow, failedPrev, crawlVars, auxVars>>
    /\ UNCHANGED <<histFile, files, cur_book, pb_pc, pb_ret, total_chapters, ust,
                   success_count, hist0, save_state>>

\* Line 282: the main thread adds a finished size to the total.
SizeAdd(i) ==
    /\ run_pc = "size"
    /\ ~interrupted
    /\ i \in 1..Len(szst)
    /\ szst[i].st = "done"
    /\ szst' = [szst EXCEPT ![i].st = "added"]
    /\ total_size' = total_size + szst[i].size
    /\ UNCHANGED <<origin, run_pc, queue, qi, interrupted, runs,
                   planHist, planned, failedNow, failedPrev, crawlVars, itemVars, auxVars>>

\* Ctrl+C while the sizes are collected: the main thread leaves the loop.
SizeInterrupt ==
    /\ run_pc = "size"
    /\ ~interrupted
    /\ interrupted' = TRUE
    /\ UNCHANGED <<origin, run_pc, queue, qi, total_size, szst, runs,
                   planHist, planned, failedNow, failedPrev, crawlVars, itemVars, auxVars>>

\* The with-block of the size check is left: every size was added, or
\* Ctrl+C came and the executor's shutdown has waited for its threads.
SizeEnd ==
    /\ run_pc = "size"
    /\ \/ ~interrupted /\ \A i \in 1..Len(szst) : szst[i].st = "added"
       \/ interrupted /\ \A i \in 1..Len(szst) : szst[i].st # "pending"
    /\ run_pc' = "confirm"
    /\ UNCHANGED <<origin, queue, qi, total_size, szst, interrupted, runs,
                   planHist, planned, failedNow, failedPrev, crawlVars, itemVars, auxVars>>

\* Line 290: the answer to "Lanjut Download? (y/n)".  The total has been
\* printed; the locals of the size check are not read again.
Confirm(yes) ==
    /\ run_pc = "confirm"
    /\ IF yes
       THEN /\ run_pc' = "exec"
            /\ qi' = 0
            /\ total_size' = 0
            /\ szst' = <<>>
            /\ interrupted' = FALSE
       ELSE RunReturn
    /\ UNCHANGED <<origin, queue, runs, planHist, planned, failedNow, failedPrev,
                   crawlVars, itemVars, auxVars>>

\* Lines 294-296: the next queued book is handed to process_book_parallel.
ExecNext ==
    /\ run_pc = "exec"
    /\ CallReturned
    /\ qi < Len(queue)
    /\ qi' = qi + 1
    /\ PBCall(queue[qi + 1])
    /\ UNCHANGED <<origin, run_pc, queue, total_size, szst, interrupted, runs,
                   planHist, planned, failedNow, failedPrev, crawlVars, auxVars>>

\* Line 298: the for-loop is exhausted and the function returns.
ExecEnd ==
    /\ run_pc = "exec"
    /\ pb_pc \in {"idle", "ret"}
    /\ qi = Len(queue)
    /\ RunReturn
    /\ cur_book' = Book(NoId, 0)
    /\ pb_pc' = "idle"
    /\ pb_ret' = FALSE
    /\ total_chapters' = 0
    /\ ust' = <<>>
    /\ success_count' = 0
    /\ hist0' = HistAbsent
    /\ save_state' = "none"
    /\ UNCHANGED <<origin, queue, runs, planHist, planned, failedNow, failedPrev,
                   crawlVars, auxVars, histFile, files, netLog>>

(***************************************************************************)
(* Runs of menu_download_auto_all on a fresh installation, against an      *)
(* origin whose catalog does not change: book 1 with MaxUnits chapters and *)
(* a reported chapterCount below, at or above that, book "2" with one.     *)
(***************************************************************************)
SyncOrigins ==
    {[books |-> <<Book(IdInt(1), c), Book(IdStr(Decimal(2)), 1)>>,
      units |-> [b \in {Decimal(1), Decimal(2)} |-> IF b = Decimal(1) THEN MaxUnits ELSE 1]] :
        c \in (MaxUnits - 1)..(MaxUnits + 1)}

InitSync ==
    /\ AuxIdle
    /\ CrawlIdle
    /\ ItemIdle
    /\ origin \in SyncOrigins
    /\ run_pc = "idle"
    /\ queue = <<>>
    /\ qi = 0
    /\ total_size = 0
    /\ szst = <<>>
    /\ interrupted = FALSE
    /\ runs = 0
    /\ planHist = HistAbsent
    /\ planned = FALSE
    /\ failedNow = {}
    /\ failedPrev = {}

\* The listing answers with the whole catalog in one page, or fails.
SyncResponses ==
    {[kind |-> "exc"], [kind |-> "ok", books |-> origin.books, isMore |-> FALSE]}

SyncFetch ==
    \E resp \in SyncResponses :
        /\ run_pc = "crawl"
        /\ FetchPage(resp)
        /\ UNCHANGED <<pageLog, lastPage, itemVars, syncVars, auxVars>>

SizeResults == {[kind |-> "exc", size |-> 0], [kind |-> "ok", size |-> MaxSize]}

SyncSizeProbe == \E i \in 1..Len(szst), res \in SizeResults : SizeProbe(i, res)

SyncSizeAdd == \E i \in 1..Len(szst) : SizeAdd(i)

SyncConfirm == \E yes \in BOOLEAN : Confirm(yes)

\* The detail endpoint fails, answers without success, lists no chapter or
\* lists the book's chapters.
SyncDetailResponses ==
    IF book_id \in DOMAIN origin.units
    THEN {[kind |-> "exc", n |-> 0], [kind |-> "nosuccess", n |-> 0],
          [kind |-> "ok", n |-> 0], [kind |-> "ok", n |-> origin.units[book_id]]}
    ELSE {}

SyncDetail ==
    \E resp \in SyncDetailResponses :
        /\ run_pc = "exec"
        /\ PBDetail(resp)
        /\ UNCHANGED <<crawlVars, syncVars, auxVars>>

SyncStartUnit ==
    \E u \in 1..Len(ust) : run_pc = "exec" /\ StartUnit(u) /\ UNCHANGED <<crawlVars, syncVars, auxVars>>

SyncProbe ==
    \E u \in 1..Len(ust), pr \in PoolProbes :
        run_pc = "exec" /\ ProbeUnit(u, pr[1], pr[2]) /\ UNCHANGED <<crawlVars, syncVars, auxVars>>

SyncTransfer ==
    \E u \in 1..Len(ust), x \in PoolXfers :
        /\ run_pc = "exec"
        /\ TransferUnit(u, x)
        /\ failedNow' = IF ust'[u].ok THEN failedNow ELSE failedNow \cup {book_id}
        /\ UNCHANGED <<origin, run_pc, queue, qi, total_size, szst, interrupted, runs,
                       planHist, planned, failedPrev, crawlVars, auxVars>>

SyncCollect ==
    \E u \in 1..Len(ust) : run_pc = "exec" /\ Collect(u) /\ UNCHANGED <<crawlVars, syncVars, auxVars>>

SyncSave ==
    \E written \in BOOLEAN :
        run_pc = "exec" /\ PBSave(written) /\ UNCHANGED <<crawlVars, syncVars, auxVars>>

NextSync ==
    \/ RunStart
    \/ SyncFetch
    \/ Plan
    \/ SyncSizeProbe
    \/ SyncSizeAdd
    \/ SizeInterrupt
    \/ SizeEnd
    \/ SyncConfirm
    \/ ExecNext
    \/ SyncDetail
    \/ SyncStartUnit
    \/ SyncProbe
    \/ SyncTransfer
    \/ SyncCollect
    \/ SyncSave
    \/ ExecEnd

SpecSync == InitSync /\ [][NextSync]_vars

(***************************************************************************)
(* Claims about the queue of a run                                         *)
(***************************************************************************)
IdsOf(books) == {StrId(books[i].id) : i \in 1..Len(books)}

\* The position of a queued book in the catalog as crawled.
CatalogIndex(b) == CHOOSE i \in 1..Len(all_books) : all_books[i] = b

\* The history as read when the queue was built holds a record of bid
\* whose TotalChapters is at least c.
RecordedAtLeast(bid, c) ==
    \E r \in RowsFor(planHist, bid) : planHist.rows[r].TotalChapters >= c

\* C3: once the queue of a run is built, a catalog item is in it exactly
\* when the history store read by that run holds no record for its
\* identifier or its reported chapterCount is strictly greater than the
\* recorded TotalChapters; the queue keeps the catalog order.
C3_QueueIff ==
    planned =>
        /\ \A i \in 1..Len(all_books) :
              (\E j \in 1..Len(queue) : queue[j] = all_books[i])
              <=> \/ RowsFor(planHist, StrId(all_books[i].id)) = {}
                  \/ ~RecordedAtLeast(StrId(all_books[i].id), all_books[i].chapterCount)
        /\ \A j \in 1..Len(queue) : \E i \in 1..Len(all_books) : all_books[i] = queue[j]
        /\ \A j, k \in 1..Len(queue) :
              j < k => CatalogIndex(queue[j]) < CatalogIndex(queue[k])

\* A second run whose history records the first catalog item with exactly
\* its reported count (so it is left out) and has no record of the second
\* (so it is queued).
C3_Witness ==
    /\ planned
    /\ runs = 2
    /\ run_pc = "size"
    /\ Len(all_books) = 2
    /\ \E r \in RowsFor(planHist, StrId(all_books[1].id)) :
          planHist.rows[r].TotalChapters = all_books[1].chapterCount
    /\ RowsFor(planHist, StrId(all_books[2].id)) = {}
    /\ queue = <<all_books[2]>>

NetKinds == {"detail", "probe", "transfer"}

\* C4: an item with a history record whose reported chapterCount is not
\* above the recorded TotalChapters is not queued, and the run makes no
\* detail fetch, size probe or transfer for it, whatever the recorded
\* Status and whether or not its local files exist.
C4_RecordedNotTouched ==
    planned =>
        \A i \in 1..Len(all_books) :
            RecordedAtLeast(StrId(all_books[i].id), all_books[i].chapterCount)
            => /\ \A j \in 1..Len(queue) : queue[j] # all_books[i]
               /\ \A k \in NetKinds : <<StrId(all_books[i].id), k>> \notin netLog

\* A second run in which the first item is recorded as Partial with its
\* reported count, one of its files is missing on disk, and the run has
\* processed the other item without touching the first.
C4_Witness ==
    /\ planned
    /\ runs = 2
    /\ run_pc = "exec"
    /\ pb_pc = "ret"
    /\ Len(all_books) = 2
    /\ \E r \in RowsFor(planHist, StrId(all_books[1].id)) :
          /\ planHist.rows[r].Status = "Partial"
          /\ planHist.rows[r].TotalChapters = all_books[1].chapterCount
    /\ \E key \in KeysOf(all_books[1], origin.units[StrId(all_books[1].id)]) :
          LocalFile(key) = NoFile
    /\ queue = <<all_books[2]>>
    /\ <<StrId(all_books[2].id), "transfer">> \in netLog
    /\ \A k \in NetKinds : <<StrId(all_books[1].id), k>> \notin netLog

\* C5: an item one of whose units failed in a run is queued again by the
\* following run once that run has crawled the same catalog.
C5_Resume ==
    (planned /\ runs >= 2) =>
        \A bid \in failedPrev : bid \in IdsOf(all_books) => bid \in IdsOf(queue)

(***************************************************************************)
(* Claims about the units of one item and the order of items               *)
(***************************************************************************)
AllCounted == Len(ust) = total_chapters /\ UnitsIn("counted") = 1..Len(ust)

\* C11: whatever happens to a unit (its probe fails, its transfer raises,
\* the write of its file raises), every unit submitted to the pool is
\* taken by a worker and gets its success/failure result: once the
\* chapters are submitted, the call eventually returns with every unit
\* collected.
C11_AllUnitsFinish == (pb_pc = "pool") ~> (pb_pc = "ret" /\ pb_ret /\ AllCounted)

\* An item has returned with both units collected: the write of the first
\* unit's file broke off and the unit failed, the second was transferred
\* in full.
C11_Witness ==
    /\ pb_pc = "ret"
    /\ pb_ret
    /\ Len(ust) = 2
    /\ AllCounted
    /\ ust[1].xfer = "exc_mid" /\ ~ust[1].ok
    /\ ust[2].xfer = "ok" /\ ust[2].ok
    /\ LocalFile(UnitKey(2)) = File(MaxSize)

\* The status of the item has been decided (line 190 is passed).
StatusDecided == pb_pc = "ret" /\ pb_ret

\* C12: the item status is decided and save_to_history is called only when
\* every submitted unit has finished: at that point no unit is queued or
\* in a worker's hands.
C12_SaveAfterAllUnits ==
    (StatusDecided \/ save_state # "none") =>
        /\ Len(ust) = total_chapters
        /\ \A u \in 1..Len(ust) : Settled(u)
        /\ InProgress = {}
        /\ UnitsIn("queued") = {}

\* A Partial record was written for an item of two units, one failed, both
\* finished.
C12_Witness ==
    /\ StatusDecided
    /\ save_state = "written"
    /\ hist0 = HistAbsent
    /\ Len(ust) = 2
    /\ ~ust[1].ok /\ ust[2].ok
    /\ histFile = HistOk(<<Row(IdStr(book_id), 2, "Partial")>>)
    /\ \A u \in 1..2 : Settled(u)

\* No unit of the current item is waiting or in a worker's hands.
NoUnitActive == InProgress = {} /\ UnitsIn("queued") = {}

\* C13: the queued items are processed one after another.  The loop moves
\* to the next item only when the call for the item before has returned
\* with none of its units queued or in progress; the history file changes
\* only in the step that ends an item's call, with no unit active; and the
\* units at work are always those of the item the loop is at.
C13_ItemsSequential ==
    [][/\ (run_pc = "exec" /\ qi' # qi) =>
              /\ pb_pc \in {"idle", "ret"}
              /\ NoUnitActive
              /\ \A u \in 1..Len(ust) : Settled(u)
       /\ (run_pc = "exec" /\ histFile' # histFile) =>
              /\ pb_pc = "pool" /\ pb_pc' = "ret"
              /\ NoUnitActive
              /\ qi' = qi
       /\ (run_pc' = "exec" /\ pb_pc' \in {"call", "pool"}) =>
              /\ qi' \in 1..Len(queue')
              /\ cur_book' = queue'[qi']]_vars

\* The second queued item has a unit in progress after the first item's
\* record was written in this run.
C13_Witness ==
    /\ run_pc = "exec"
    /\ qi = 2
    /\ pb_pc = "pool"
    /\ InProgress # {}
    /\ planHist = HistAbsent
    /\ RowsFor(histFile, StrId(queue[1].id)) # {}
    /\ cur_book = queue[2]

(***************************************************************************)
(* The history store under a sequence of save_to_history calls, starting   *)
(* from no file or from a file with a row whose BookID cell is a number.   *)
(***************************************************************************)
HistIds == {Decimal(1), Decimal(MaxIdNum)}

HistTotals == {1, MaxUnits}

Statuses == {"Completed", "Partial"}

NoCall == [total |-> 0, status |-> ""]

HistStores == {HistAbsent, HistOk(<<Row(IdInt(MaxIdNum), 1, "Completed")>>)}

InitHist ==
    /\ CrawlIdle
    /\ SyncIdle
    /\ histFile \in HistStores
    /\ files = <<>>
    /\ cur_book = Book(NoId, 0)
    /\ pb_pc = "idle"
    /\ pb_ret = FALSE
    /\ total_chapters = 0
    /\ ust = <<>>
    /\ success_count = 0
    /\ hist0 = histFile
    /\ save_state = "none"
    /\ netLog = {}
    /\ rq = RqIdle
    /\ callLog = [store0 |-> histFile, calls |-> <<>>]
    /\ wr = WrIdle
    /\ jsonFile = JsonAbsent
    /\ sc_history = EmptyHistory
    /\ sc_up = FALSE
    /\ ScraperIdle

\* The call log after a call for bid: `last` is the call, `eff` the latest
\* call for bid whose write went through.
Logged(bid, total, status, written) ==
    LET c == [total |-> total, status |-> status]
        old == IF bid \in DOMAIN callLog.calls THEN callLog.calls[bid].eff ELSE NoCall
    IN [callLog EXCEPT !.calls =
           [k \in DOMAIN callLog.calls \cup {bid} |->
               IF k = bid THEN [last |-> c, eff |-> IF written THEN c ELSE old]
               ELSE callLog.calls[k]]]

\* One call save_to_history(bid, title, total, status).
HistSave ==
    \E bid \in HistIds, total \in HistTotals, status \in Statuses, written \in BOOLEAN :
        /\ hist0' = histFile
        /\ histFile' = save_to_history(histFile, bid, total, status, written)
        /\ save_state' = IF written THEN "written" ELSE "failed"
        /\ callLog' = Logged(bid, total, status, written)
        /\ UNCHANGED <<files, cur_book, pb_pc, pb_ret, total_chapters, ust,
                       success_count, netLog>>
        /\ UNCHANGED <<rq, wr, jsonFile, sc_history, sc_up, sc, master_excel, scLog, crawlVars, syncVars>>

NextHist == HistSave

SpecHist == InitHist /\ [][NextHist]_vars

\* The records a store holds for an identifier, by value.
RecsFor(h, bid) ==
    {[total |-> h.rows[i].TotalChapters, status |-> h.rows[i].Status] : i \in RowsFor(h, bid)}

AllHistIds == HistIds \cup {StrId(callLog.store0.rows[i].BookID) : i \in 1..Len(callLog.store0.rows)}

Called == DOMAIN callLog.calls

OneRowPerId(h) == \A bid \in AllHistIds : Cardinality(RowsFor(h, bid)) <= 1

HistPartial == [state |-> "partial", rows |-> <<>>]

JsonPartial == [state |-> "partial", data |-> EmptyHistory]

JsonOk(data) == [state |-> "ok", data |-> data]

\* _load_history: the parsed file, or the empty history when the file is
\* absent or json.load raises.
sc_load_history(f) == IF f.state = "ok" THEN f.data ELSE EmptyHistory

\* Lines 108-120 up to the point where to_excel has opened the file.
XlsOpen(bid, total, status) ==
    /\ wr.pc = "idle"
    /\ wr' = [pc |-> "open", file |-> "xlsx", old |-> histFile,
              new |-> HistOk(SavedRows(histFile, bid, total, status))]
    /\ hist0' = histFile
    /\ histFile' = HistPartial
    /\ UNCHANGED <<files, cur_book, pb_pc, pb_ret, total_chapters, ust,
                   success_count, save_state, netLog>>
    /\ UNCHANGED <<rq, callLog, jsonFile, sc_history, sc_up, sc, master_excel, scLog, crawlVars, syncVars>>

\* to_excel writes the workbook and closes the file.
XlsClose ==
    /\ wr.pc = "open"
    /\ wr.file = "xlsx"
    /\ histFile' = wr.new
    /\ wr' = WrIdle
    /\ UNCHANGED <<files, cur_book, pb_pc, pb_ret, total_chapters, ust,
                   success_count, hist0, save_state, netLog>>
    /\ UNCHANGED <<rq, callLog, jsonFile, sc_history, sc_up, sc, master_excel, scLog, crawlVars, syncVars>>

\* Lines 398-400 of the scraper: an episode id not yet in the history is
\* appended and _save_history opens the file.
JsonOpen(ep_id) ==
    /\ wr.pc = "idle"
    /\ \A i \in 1..Len(sc_history.downloaded_episode_ids) :
          sc_history.downloaded_episode_ids[i] # ep_id
    /\ sc_history' = [sc_history EXCEPT !.downloaded_episode_ids = Append(@, ep_id)]
    /\ wr' = [pc |-> "open", file |-> "json", old |-> jsonFile, new |-> JsonOk(sc_history')]
    /\ jsonFile' = JsonPartial
    /\ UNCHANGED <<rq, callLog, sc_up, sc, master_excel, scLog, crawlVars, syncVars, itemVars>>

\* json.dump has written everything and the with-block closes the file.
JsonClose ==
    /\ wr.pc = "open"
    /\ wr.file = "json"
    /\ jsonFile' = wr.new
    /\ wr' = WrIdle
    /\ UNCHANGED <<rq, callLog, sc_history, sc_up, sc, master_excel, scLog, crawlVars, syncVars, itemVars>>

\* The process is killed.
Crash ==
    /\ wr.pc \in {"idle", "open"}
    /\ wr' = [wr EXCEPT !.pc = "crashed"]
    /\ UNCHANGED <<rq, callLog, jsonFile, sc_history, sc_up, sc, master_excel, scLog, crawlVars, syncVars, itemVars>>

JsonStores == {JsonAbsent, JsonOk([EmptyHistory EXCEPT !.downloaded_drama_ids = <<Decimal(1)>>])}

InitCrash ==
    /\ CrawlIdle
    /\ SyncIdle
    /\ histFile \in HistStores
    /\ files = <<>>
    /\ cur_book = Book(NoId, 0)
    /\ pb_pc = "idle"
    /\ pb_ret = FALSE
    /\ total_chapters = 0
    /\ ust = <<>>
    /\ success_count = 0
    /\ hist0 = histFile
    /\ save_state = "none"
    /\ netLog = {}
    /\ rq = RqIdle
    /\ callLog = [store0 |-> histFile, calls |-> <<>>]
    /\ wr = WrIdle
    /\ jsonFile \in JsonStores
    /\ sc_history = sc_load_history(jsonFile)
    /\ sc_up = TRUE
    /\ ScraperIdle

CrashXlsOpen ==
    \E bid \in HistIds, total \in HistTotals, status \in Statuses : XlsOpen(bid, total, status)

CrashJsonOpen == \E ep_id \in HistIds : JsonOpen(ep_id)

NextCrash ==
    \/ CrashXlsOpen
    \/ XlsClose
    \/ CrashJsonOpen
    \/ JsonClose
    \/ Crash

SpecCrash == InitCrash /\ [][NextCrash]_vars

\* C15: when the process has been killed during a history upsert, the
\* file on disk is the full old store or the full new store.
C15_CrashAtomic ==
    wr.pc = "crashed" =>
        /\ wr.file = "xlsx" => histFile \in {wr.old, wr.new}
        /\ wr.file = "json" => jsonFile \in {wr.old, wr.new}

(***************************************************************************)
(* Runs of menu_download_auto_all, and the construction of a               *)
(* DramaboxScraper, when the history files exist and cannot be read: the   *)
(* file is damaged (its records are there, read_excel / json.load raises)  *)
(* or was left half-written.                                               *)
(***************************************************************************)
DamagedStores ==
    {[state |-> "corrupt",
      rows |-> <<Row(IdStr(Decimal(1)), MaxUnits + 1, "Completed"),
                 Row(IdStr(Decimal(2)), 1, "Completed")>>],
     HistPartial}

DamagedJson ==
    {[state |-> "corrupt",
      data |-> [EmptyHistory EXCEPT !.downloaded_drama_ids = <<Decimal(1)>>]],
     JsonPartial}

Unreadable(f) == f.state \notin {"ok", "absent"}

InitDamaged ==
    /\ CrawlIdle
    /\ histFile \in DamagedStores
    /\ files = <<>>
    /\ cur_book = Book(NoId, 0)
    /\ pb_pc = "idle"
    /\ pb_ret = FALSE
    /\ total_chapters = 0
    /\ ust = <<>>
    /\ success_count = 0
    /\ hist0 = histFile
    /\ save_state = "none"
    /\ netLog = {}
    /\ origin \in {o \in SyncOrigins : o.books[1].chapterCount = MaxUnits}
    /\ run_pc = "idle"
    /\ queue = <<>>
    /\ qi = 0
    /\ total_size = 0
    /\ szst = <<>>
    /\ interrupted = FALSE
    /\ runs = 0
    /\ planHist = histFile
    /\ planned = FALSE
    /\ failedNow = {}
    /\ failedPrev = {}
    /\ rq = RqIdle
    /\ callLog = [store0 |-> histFile, calls |-> <<>>]
    /\ wr = WrIdle
    /\ jsonFile \in DamagedJson
    /\ sc_history = EmptyHistory
    /\ sc_up = FALSE
    /\ ScraperIdle

\* DramaboxScraper.__init__, line 22.
ScInit ==
    /\ ~sc_up
    /\ run_pc = "idle"
    /\ runs = 0
    /\ sc_up' = TRUE
    /\ sc_history' = sc_load_history(jsonFile)
    /\ UNCHANGED <<rq, callLog, wr, jsonFile, sc, master_excel, scLog,
                   crawlVars, syncVars, itemVars>>

NextDamaged == NextSync \/ ScInit

SpecDamaged == InitDamaged /\ [][NextDamaged]_vars

\* C16: a run that finds the Excel history unreadable reads it as empty:
\* load_history gives no rows, check_is_downloaded finds no identifier, and
\* the queue is the whole catalog; a DramaboxScraper constructed on an
\* unreadable JSON history has the empty history.
C16_UnreadableIsEmpty ==
    /\ (planned /\ Unreadable(planHist)) =>
          /\ load_history(planHist) = <<>>
          /\ \A i \in 1..Len(all_books) :
                ~check_is_downloaded(planHist, StrId(all_books[i].id)).found
          /\ queue = all_books
    /\ (sc_up /\ Unreadable(jsonFile)) => sc_history = EmptyHistory

\* The queue was built from a damaged file that holds up-to-date records of
\* both catalog items, and both are queued; the scraper was constructed on
\* a damaged JSON file.
C16_Witness ==
    /\ planned
    /\ run_pc = "size"
    /\ planHist.state = "corrupt"
    /\ Len(planHist.rows) = 2
    /\ Len(all_books) = 2
    /\ queue = all_books
    /\ sc_up
    /\ jsonFile.state = "corrupt"
    /\ sc_history = EmptyHistory

(***************************************************************************)
(* The retrying request helpers: get_with_retry of the downloader, _get    *)
(* and _post of DramaboxScraper.  Time is counted in half seconds.  An     *)
(* attempt is answered by                                                  *)
(*   "exc"       a transport failure (requests raises RequestException),   *)
(*   "s502"      a response with status 502,                               *)
(*   "http_err"  a response with another 4xx/5xx status,                   *)
(*   "ok"        a 200 response whose JSON has success true,               *)
(*   "nosuccess" a 200 response whose JSON has success false.              *)
(***************************************************************************)
Seconds(n) == 2 * n

Answers == {"exc", "s502", "http_err", "ok", "nosuccess"}

ScraperFns == {"_get", "_post"}

\* A frame after one more request answered by ans.
Asked(f, ans) ==
    [f EXCEPT !.requests = @ + 1, !.answers = Append(@, ans), !.attempt = @ + 1]

\* get_with_retry, one pass of the for-loop (lines 33-37): any response is
\* returned as it is; a RequestException sleeps delay * (i + 1).
get_with_retry_pass(f, ans) ==
    IF ans = "exc"
    THEN [Asked(f, ans) EXCEPT !.sleeps = Append(@, f.delay * (f.attempt + 1))]
    ELSE [Asked(f, ans) EXCEPT !.pc = "done", !.result = "response"]

\* get_with_retry, line 38: the loop is exhausted.
get_with_retry_end(f) == [f EXCEPT !.pc = "done", !.result = "raise_max"]

\* Mutant of Backoff502: every sleep after a 502 lasts the same.
Backoff502Flat(attempt) == Seconds(3)

\* Lines 63 and 91 of the scraper: time.sleep(3 * (attempt + 1)).
Backoff502(attempt) == Seconds(3) * (attempt + 1)

\* Mutant of sc_request_pass: the exception of the last attempt is raised
\* to the caller.
ScPassRaiseLast(f, ans) ==
    IF ans = "s502"
    THEN [Asked(f, ans) EXCEPT !.sleeps = Append(@, Backoff502(f.attempt))]
    ELSE IF ans = "ok" THEN [Asked(f, ans) EXCEPT !.pc = "done", !.result = "data"]
    ELSE IF ans = "nosuccess" THEN [Asked(f, ans) EXCEPT !.pc = "done", !.result = "None"]
    ELSE IF f.attempt = SC_ATTEMPTS - 1
    THEN [Asked(f, ans) EXCEPT !.pc = "done", !.result = "raise"]
    ELSE [Asked(f, ans) EXCEPT !.sleeps = Append(@, Seconds(2) * (f.attempt + 1))]

\* _get and _post, one pass of the for-loop (lines 59-79, 87-105): a 502
\* sleeps and continues; raise_for_status turns another error status into
\* an exception inside the try, so that it is handled like a transport
\* failure: sleep 2 * (attempt + 1) unless this was the last attempt.
sc_request_pass(f, ans) ==
    IF ans = "s502"
    THEN [Asked(f, ans) EXCEPT !.sleeps = Append(@, Backoff502(f.attempt))]
    ELSE IF ans = "ok" THEN [Asked(f, ans) EXCEPT !.pc = "done", !.result = "data"]
    ELSE IF ans = "nosuccess" THEN [Asked(f, ans) EXCEPT !.pc = "done", !.result = "None"]
    ELSE IF f.attempt = SC_ATTEMPTS - 1
    THEN Asked(f, ans)
    ELSE [Asked(f, ans) EXCEPT !.sleeps = Append(@, Seconds(2) * (f.attempt + 1))]

\* _get and _post, lines 80 and 106: the loop is exhausted.
sc_request_end(f) == [f EXCEPT !.pc = "done", !.result = "None"]

\* A caller calls one of the helpers.
RqCall(fn, retries, delay) ==
    /\ rq.pc = "idle"
    /\ rq' = [RqIdle EXCEPT !.fn = fn, !.retries = retries, !.delay = delay, !.pc = "loop"]
    /\ UNCHANGED <<callLog, wr, jsonFile, sc_history, sc_up, sc, master_excel, scLog, crawlVars, syncVars, itemVars>>

\* One pass of the helper's loop, or the statement after the loop.
RqPass(ans) ==
    /\ rq.pc = "loop"
    /\ rq' = IF rq.attempt < rq.retries
             THEN IF rq.fn = "get_with_retry"
                  THEN get_with_retry_pass(rq, ans)
                  ELSE sc_request_pass(rq, ans)
             ELSE IF rq.fn = "get_with_retry"
                  THEN get_with_retry_end(rq)
                  ELSE sc_request_end(rq)
    /\ UNCHANGED <<callLog, wr, jsonFile, sc_history, sc_up, sc, master_excel, scLog, crawlVars, syncVars, itemVars>>

\* The caller has the result (or the exception).
RqReturn ==
    /\ rq.pc = "done"
    /\ rq' = RqIdle
    /\ UNCHANGED <<callLog, wr, jsonFile, sc_history, sc_up, sc, master_excel, scLog, crawlVars, syncVars, itemVars>>

InitRetry == CrawlIdle /\ ItemIdle /\ SyncIdle /\ AuxIdle

\* The calls the programs make: get_with_retry with the default retries
\* and delay 1 (line 144) or delay 0.5 (line 209); _get and _post.
RetryCall ==
    \/ \E delay \in {1, Seconds(1)} : RqCall("get_with_retry", GET_RETRIES, delay)
    \/ \E fn \in ScraperFns : RqCall(fn, SC_ATTEMPTS, 0)

RetryPass == \E ans \in Answers : RqPass(ans)

NextRetry ==
    \/ RetryCall
    \/ RetryPass
    \/ RqReturn

\* Every request returns or raises within its timeout.
SpecRetry == InitRetry /\ [][NextRetry]_vars /\ WF_vars(RetryPass)

(***************************************************************************)
(* Claims about the retrying helpers                                       *)
(***************************************************************************)
AllAnswersIn(S) == \A i \in 1..Len(rq.answers) : rq.answers[i] \in S

RetryBounded ==
    /\ rq.requests <= rq.retries
    /\ rq.requests = Len(rq.answers)
    /\ (rq.fn = "get_with_retry" /\ rq.pc = "done" /\ AllAnswersIn({"exc"})) =>
          rq.result = "raise_max" /\ rq.requests = rq.retries
    /\ rq.fn \in ScraperFns =>
          /\ rq.requests <= SC_ATTEMPTS
          /\ rq.result \in {"none", "data", "None"}
          /\ (rq.pc = "done" /\ AllAnswersIn({"exc", "s502", "http_err"})) =>
                rq.result = "None" /\ rq.requests = SC_ATTEMPTS

\* C17: a retrying helper never issues more requests than its retry count
\* and every call ends: get_with_retry raises "Max retries exceeded" when
\* all its attempts failed at transport level; _get and _post issue at most
\* 5 requests, never raise, and return None when all attempts failed.
C17_BoundedRetries == []RetryBounded /\ ((rq.pc = "loop") ~> (rq.pc = "done"))

\* _post has returned None after five failed requests, the last of which
\* raised.
C17_Witness ==
    /\ rq.fn = "_post"
    /\ rq.pc = "done"
    /\ rq.requests = SC_ATTEMPTS
    /\ AllAnswersIn({"exc", "s502", "http_err"})
    /\ rq.answers[SC_ATTEMPTS] = "exc"
    /\ rq.result = "None"

\* C18: when an attempt of get_with_retry or of _get is answered by 502 and
\* attempts remain, the helper has slept and goes on to the next attempt;
\* the 502 is not handed to the caller.
C18_Retry502 ==
    (/\ rq.fn \in {"get_with_retry", "_get"}
     /\ rq.answers # <<>>
     /\ rq.answers[Len(rq.answers)] = "s502"
     /\ rq.requests < rq.retries)
    => /\ rq.pc = "loop"
       /\ rq.result = "none"
       /\ Len(rq.sleeps) = Len(rq.answers)

\* C19: when a request of _get or _post is answered by an error status
\* other than 502, the helper is done after that one request, without a
\* sleep, and reports the failure.
C19_NoRetryOnHttpError ==
    (/\ rq.fn \in ScraperFns
     /\ rq.answers # <<>>
     /\ rq.answers[1] = "http_err")
    => /\ rq.pc = "done"
       /\ rq.requests = 1
       /\ rq.sleeps = <<>>
       /\ rq.result = "None"

\* The answers are k times 502 and then a success.
After502sOk(k) ==
    /\ Len(rq.answers) = k + 1
    /\ \A i \in 1..k : rq.answers[i] = "s502"
    /\ rq.answers[k + 1] = "ok"

\* C20: when the first k attempts of _get (k < 5) are answered by 502 and
\* the next one succeeds, the caller gets the result, k + 1 requests were
\* issued and k sleeps made, the i-th lasting 3 seconds times i.
C20_LinearBackoff ==
    \A k \in 0..(SC_ATTEMPTS - 1) :
        (rq.fn = "_get" /\ After502sOk(k)) =>
            /\ rq.pc = "done"
            /\ rq.result = "data"
            /\ rq.requests = k + 1
            /\ Len(rq.sleeps) = k
            /\ \A i \in 1..k : rq.sleeps[i] = Seconds(3) * i

\* Two 502 answers, then a success on the third attempt: two sleeps of 3
\* and 6 seconds.
C20_Witness ==
    /\ rq.fn = "_get"
    /\ After502sOk(2)
    /\ rq.pc = "done"
    /\ rq.result = "data"
    /\ rq.requests = 3
    /\ rq.sleeps = <<Seconds(3), Seconds(6)>>

(***************************************************************************)
(* get_head_with_retry and get_file_size, request by request.  The frame   *)
(* in rq is the call of get_file_size: pc "head" while get_head_with_retry *)
(* loops, "get" when the fallback GET is to be issued, "done" at a return; *)
(* attempt counts the HEAD requests, size is the value returned.           *)
(***************************************************************************)
\* What the origin answers to a probe request: an exception, or a response
\* with a status and a content-length header (len = <<>> when absent).
ProbeAnswers ==
    {[kind |-> "exc", status |-> 0, len |-> <<>>]}
    \cup {[kind |-> "resp", status |-> st, len |-> l] :
             st \in {200, 404}, l \in {<<>>} \cup {<<c>> : c \in Sizes}}

\* int(response.headers.get('content-length', 0))
ContentLength(ans) == IF ans.len = <<>> THEN 0 ELSE ans.len[1]

\* What get_head_with_retry returned, as get_file_size reads it.
HeadResult(f) ==
    LET h == f.answers[f.attempt] IN
    IF h.kind = "exc" THEN [kind |-> "none", status |-> 0, cl |-> 0]
    ELSE [kind |-> "resp", status |-> h.status, cl |-> ContentLength(h)]

\* The outcome of the fallback GET, as get_file_size reads it.
GetResult(ans) == [kind |-> ans.kind, cl |-> ContentLength(ans)]

\* Line 52: get_file_size calls get_head_with_retry.
FsCall ==
    /\ rq.pc = "idle"
    /\ rq' = [fn |-> "get_file_size", retries |-> HEAD_RETRIES, delay |-> Seconds(1),
              pc |-> "head", attempt |-> 0, requests |-> 0, sleeps |-> <<>>,
              answers |-> <<>>, result |-> "none", size |-> 0]
    /\ UNCHANGED <<callLog, wr, jsonFile, sc_history, sc_up, sc, master_excel, scLog, crawlVars, syncVars, itemVars>>

\* One pass of the loop of get_head_with_retry (lines 42-47) and, when it
\* returns, lines 53 and 63-64 of get_file_size.
FsHead(ans) ==
    /\ rq.pc = "head"
    /\ LET f == [rq EXCEPT !.requests = @ + 1, !.attempt = @ + 1,
                           !.answers = Append(@, ans)]
       IN rq' = IF ans.kind = "exc"
                THEN [f EXCEPT !.sleeps = Append(@, Seconds(1)),
                               !.pc = IF f.attempt = f.retries THEN "get" ELSE "head"]
                ELSE IF ans.status # 200
                THEN [f EXCEPT !.pc = "get"]
                ELSE [f EXCEPT !.pc = "done", !.result = "int",
                               !.size = get_file_size(HeadResult(f), GetResult(ans))]
    /\ UNCHANGED <<callLog, wr, jsonFile, sc_history, sc_up, sc, master_excel, scLog, crawlVars, syncVars, itemVars>>

\* Lines 55-61: the streamed GET fallback.
FsGet(ans) ==
    /\ rq.pc = "get"
    /\ rq' = [rq EXCEPT !.requests = @ + 1, !.answers = Append(@, ans),
                        !.pc = "done", !.result = "int",
                        !.size = get_file_size(HeadResult(rq), GetResult(ans))]
    /\ UNCHANGED <<callLog, wr, jsonFile, sc_history, sc_up, sc, master_excel, scLog, crawlVars, syncVars, itemVars>>

\* The caller has the size.
FsReturn ==
    /\ rq.fn = "get_file_size"
    /\ rq.pc = "done"
    /\ rq' = RqIdle
    /\ UNCHANGED <<callLog, wr, jsonFile, sc_history, sc_up, sc, master_excel, scLog, crawlVars, syncVars, itemVars>>

ProbeHead == \E ans \in ProbeAnswers : FsHead(ans)

ProbeGet == \E ans \in ProbeAnswers : FsGet(ans)

NextProbe ==
    \/ FsCall
    \/ ProbeHead
    \/ ProbeGet
    \/ FsReturn

SpecProbe == InitRetry /\ [][NextProbe]_vars

\* Whether a probe request delivered a usable answer: a 200 response.
ProbeOk(ans) == ans.kind = "resp" /\ ans.status = 200

\* C21: at the return of get_file_size a fallback GET was issued exactly
\* when HEAD gave no response or a non-200 status; the value is the content
\* length of the probe that succeeded, and 0 when both probes failed or no
\* content-length was reported; the call returns a number, it never raises.
C21_SizeProbe ==
    (rq.fn = "get_file_size" /\ rq.pc = "done") =>
        LET h == rq.answers[rq.attempt]
            g == rq.answers[Len(rq.answers)]
            fellBack == Len(rq.answers) > rq.attempt
        IN /\ rq.result = "int"
           /\ fellBack <=> ~ProbeOk(h)
           /\ ProbeOk(h) => rq.size = ContentLength(h)
           /\ (~ProbeOk(h) /\ ProbeOk(g)) => rq.size = ContentLength(g)
           /\ (~ProbeOk(h) /\ ~ProbeOk(g)) => rq.size = 0

(***************************************************************************)
(* Claims on failures of the crawl and of an item.                         *)
(***************************************************************************)
\* C22: a page fetch that fails (get_with_retry or .json() raised, or the
\* response has no success flag) ends the crawl by a break, not by an
\* exception, and the result is what the pages before it had accumulated:
\* the failing step changes neither the list nor the set of seen ids.
C22_PartialKept ==
    [][(crawl_pc = "loop" /\ crawl_stop' \in {"exc", "nosuccess"})
          => /\ crawl_pc' = "done"
             /\ all_books' = all_books
             /\ seen_ids' = seen_ids
             /\ page' = page]_vars

\* C22 witness: the request for page 3 failed after two pages had brought
\* one new entry each; both are in the result.
C22_Witness ==
    /\ crawl_pc = "done"
    /\ crawl_stop \in {"exc", "nosuccess"}
    /\ page = 3
    /\ Len(all_books) = 2
    /\ lastPage = <<>>

(***************************************************************************)
(* The crawl against an origin whose catalog does not end: every page      *)
(* brings one entry never seen before; the origin says isMore or not, or   *)
(* answers with an empty page.                                             *)
(***************************************************************************)
EndlessResponses ==
    {[kind |-> "ok", books |-> <<Book(IdInt(page), 1)>>, isMore |-> m] : m \in BOOLEAN}
    \cup {[kind |-> "ok", books |-> <<>>, isMore |-> TRUE]}

\* What the origin saw and said for one request: the page asked for, the
\* length of the list it delivered and its isMore flag.
Requested(resp) == [page |-> page, n |-> Len(resp.books), isMore |-> resp.isMore]

EndlessStep ==
    \E resp \in EndlessResponses :
        /\ FetchPage(resp)
        /\ pageLog' = Append(pageLog, Requested(resp))
        /\ UNCHANGED <<lastPage, itemVars, syncVars, auxVars>>

NextEndless == EndlessStep

SpecEndless == InitCrawl /\ [][NextEndless]_vars

\* C23: every page requested before the last one delivered a non-empty
\* list with isMore true (so no page is requested after an empty list or an
\* isMore false), and no requested page has a number above the ceiling.
C23_StopAndCeiling ==
    /\ \A i \in 1..(Len(pageLog) - 1) : pageLog[i].isMore /\ pageLog[i].n > 0
    /\ \A i \in 1..Len(pageLog) : pageLog[i].page <= PAGE_CEILING

\* The call for the queued item the loop is at has returned from its detail
\* request without chapters (lines 145-155).
ItemFailed == run_pc = "exec" /\ pb_pc = "ret" /\ total_chapters = 0

\* C24: an item whose detail request fails, answers without success or
\* lists no chapter makes process_book_parallel return False with the
\* history file as it was and no save attempted; the loop can then go on,
\* and its next step is the call for the next queued item (or, after the
\* last item, the return of the run).
C24_ItemFailureLocal ==
    /\ [](ItemFailed =>
            /\ ~pb_ret
            /\ histFile = hist0
            /\ save_state = "none"
            /\ ust = <<>>
            /\ (qi < Len(queue) => ENABLED ExecNext)
            /\ (qi = Len(queue) => ENABLED ExecEnd))
    /\ [][(ItemFailed /\ qi < Len(queue)) =>
             /\ qi' = qi + 1
             /\ cur_book' = queue[qi + 1]
             /\ pb_pc' = "call"
             /\ histFile' = histFile]_vars

\* C24 witness: the first of two queued items failed at its detail request
\* (no unit of it was ever probed, no record of it exists) and the second
\* item has a unit in progress.
C24_Witness ==
    /\ run_pc = "exec"
    /\ qi = 2
    /\ pb_pc = "pool"
    /\ InProgress # {}
    /\ <<StrId(queue[1].id), "detail">> \in netLog
    /\ <<StrId(queue[1].id), "probe">> \notin netLog
    /\ RowsFor(histFile, StrId(queue[1].id)) = {}

\* C25: once Ctrl+C has ended the collection of sizes, the run can leave
\* the size check for the confirmation at once, whatever probes are still
\* pending: it does not wait for them.
C25_InterruptAbandons == (run_pc = "size" /\ interrupted) => ENABLED SizeEnd

\* C27: a unit whose media GET was answered by an HTTP error status is a
\* failed unit: its result is not a success, it adds nothing to the item's
\* success count, and the item is not recorded as Completed on its account.
C27_HttpErrorFails ==
    \A u \in 1..Len(ust) :
        ust[u].xfer = "http_err" =>
            /\ ~ust[u].ok
            /\ success_count = 0
            /\ (save_state = "written" =>
                   \A i \in RowsFor(histFile, book_id) :
                       histFile.rows[i].Status # "Completed")

(***************************************************************************)
(* DramaboxScraper (src/dramabox_scraper.py): download_all, download_drama *)
(* and download_file.  The folder of drama d holds episode_u.mp4 as        *)
(* files[<<d, u>>]; the cover is left out.  The master list and the JSON   *)
(* history are written in one step each.                                   *)
(***************************************************************************)
InSeq(x, q) == \E i \in 1..Len(q) : q[i] = x

\* str(ep.get('chapterId', '')) of episode u of drama d.
EpId(d, u) == d \o "_" \o Decimal(u)

\* The episode files in the folder of drama d (lines 307-309).
EpisodeFiles(d) == {k \in DOMAIN files : k[1] = d /\ files[k].ex}

\* download_file (lines 191-210) on the local file `local` with the outcome
\* x of the GET: "ok", "http_err" (raise_for_status raises before the file
\* is opened), "exc_mid" (iter_content or write raised after x.sz bytes).
sc_download_file(local, x) ==
    IF local.ex
    THEN [ok |-> TRUE, requested |-> FALSE, file |-> local]
    ELSE IF x.kind = "ok"
    THEN [ok |-> TRUE, requested |-> TRUE, file |-> File(x.sz)]
    ELSE IF x.kind = "exc_mid"
    THEN [ok |-> FALSE, requested |-> TRUE, file |-> File(x.sz)]
    ELSE [ok |-> FALSE, requested |-> TRUE, file |-> local]

\* update_master_excel as far as 'Episodes Downloaded' goes (lines 240-255).
UpsertMaster(m, id, n) == [k \in DOMAIN m \cup {id} |-> IF k = id THEN n ELSE m[k]]

\* Lines 352-354: download_all is called.
ScDownloadAll(only_new) ==
    /\ sc_up
    /\ sc.pc = "idle"
    /\ sc' = [ScIdle EXCEPT !.pc = "list", !.only_new = only_new,
                            !.excel_history = IF only_new THEN master_excel ELSE <<>>]
    /\ UNCHANGED <<rq, callLog, wr, jsonFile, sc_history, sc_up, master_excel, scLog,
                   crawlVars, syncVars, itemVars>>

\* Lines 357-360: the listing page sc.page is fetched; resp is what
\* get_drama_list returns ([], False when _get gave nothing).
ScList(resp) ==
    /\ sc.pc = "list"
    /\ LET ids == {StrId(resp.list[i].bookId) : i \in 1..Len(resp.list)} IN
       /\ sc' = IF resp.list = <<>>
                THEN [sc EXCEPT !.pc = "done", !.has_more = resp.isMore]
                ELSE [sc EXCEPT !.pc = "page", !.has_more = resp.isMore,
                                !.dramas = resp.list, !.di = 0]
       /\ scLog' = [scLog EXCEPT !.seen = @ \cup ids,
                                 !.repeats = IF resp.list # <<>> /\ ids \subseteq scLog.seen
                                             THEN @ + 1 ELSE 0]
    /\ UNCHANGED <<rq, callLog, wr, jsonFile, sc_history, sc_up, master_excel,
                   crawlVars, syncVars, itemVars>>

\* Lines 362-377: the for-loop takes the next drama of the page and calls
\* download_drama unless the master list says it is up to date; after the
\* last drama the page number is raised and the while condition tested.
ScNextDrama ==
    /\ sc.pc \in {"page", "ret"}
    /\ IF sc.di = Len(sc.dramas)
       THEN sc' = [sc EXCEPT !.page = @ + 1,
                             !.pc = IF sc.has_more THEN "list" ELSE "done"]
       ELSE LET drama == sc.dramas[sc.di + 1]
                id == StrId(drama.bookId)
                upToDate == /\ sc.only_new
                            /\ id \in DOMAIN sc.excel_history
                            /\ drama.chapterCount <= sc.excel_history[id]
            IN sc' = [sc EXCEPT !.di = @ + 1, !.drama_id = id,
                                !.pc = IF upToDate THEN "page" ELSE "drama"]
    /\ UNCHANGED <<rq, callLog, wr, jsonFile, sc_history, sc_up, master_excel, scLog,
                   crawlVars, syncVars, itemVars>>

\* Lines 269-309 of download_drama as download_all calls it (drama_info is
\* the listing entry): detail is what get_drama_detail returned, chapters
\* what the second get_chapters of line 274 returned, each "none" or a
\* chapter list of n entries.  With both "none", line 274 calls .get on
\* None: the AttributeError is caught nowhere and leaves download_all.
ScDetail(detail, chapters) ==
    /\ sc.pc = "drama"
    /\ LET got == IF detail.kind = "none" THEN chapters ELSE detail IN
       sc' = IF got.kind = "none"
             THEN [sc EXCEPT !.pc = "raised"]
             ELSE [sc EXCEPT !.pc = "eps", !.total_episodes = got.n, !.ei = 0,
                             !.new_episodes_found = FALSE,
                             !.downloaded_count = Cardinality(EpisodeFiles(sc.drama_id))]
    /\ UNCHANGED <<rq, callLog, wr, jsonFile, sc_history, sc_up, master_excel, scLog,
                   crawlVars, syncVars, itemVars>>

\* Lines 311-328: one pass of the episode loop.  watch says whether
\* get_watch_info delivered a videoUrl, x is the outcome of the GET that
\* download_file issues when the file does not exist.
ScEpisode(watch, x) ==
    /\ sc.pc = "eps"
    /\ sc.ei < sc.total_episodes
    /\ LET u == sc.ei + 1
           key == <<sc.drama_id, u>>
           ep_id == EpId(sc.drama_id, u)
           called == /\ ~(sc.only_new /\ InSeq(ep_id, sc_history.downloaded_episode_ids))
                     /\ watch
           r == sc_download_file(LocalFile(key), x)
           success == called /\ r.ok
       IN /\ sc' = [sc EXCEPT !.ei = u,
                              !.new_episodes_found = @ \/ success,
                              !.downloaded_count = IF success THEN @ + 1 ELSE @]
          /\ files' = IF called /\ r.file # LocalFile(key)
                      THEN WriteFile(key, r.file) ELSE files
          /\ sc_history' =
                IF success /\ ~InSeq(ep_id, sc_history.downloaded_episode_ids)
                THEN [sc_history EXCEPT !.downloaded_episode_ids = Append(@, ep_id)]
                ELSE sc_history
          /\ scLog' = [scLog EXCEPT !.dl =
                         IF called
                         THEN [key |-> key, ok |-> r.ok, requested |-> r.requested,
                               local |-> LocalFile(key)]
                         ELSE NoDownload]
    /\ UNCHANGED <<rq, callLog, wr, jsonFile, sc_up, master_excel, crawlVars, syncVars>>
    /\ UNCHANGED <<histFile, cur_book, pb_pc, pb_ret, total_chapters, ust,
                   success_count, hist0, save_state, netLog>>

\* Lines 330-348: the master list and the history are updated and
\* download_drama returns.
ScFinish ==
    /\ sc.pc = "eps"
    /\ sc.ei = sc.total_episodes
    /\ sc' = [sc EXCEPT !.pc = "ret", !.total_episodes = 0, !.ei = 0,
                        !.downloaded_count = 0, !.new_episodes_found = FALSE]
    /\ master_excel' = UpsertMaster(master_excel, sc.drama_id, sc.downloaded_count)
    /\ LET known == InSeq(sc.drama_id, sc_history.downloaded_drama_ids) IN
       /\ sc_history' = IF known THEN sc_history
                        ELSE [sc_history EXCEPT !.downloaded_drama_ids = Append(@, sc.drama_id)]
       /\ jsonFile' = IF sc.new_episodes_found \/ ~known
                      THEN JsonOk(sc_history') ELSE jsonFile
    /\ scLog' = [scLog EXCEPT !.dl = NoDownload]
    /\ UNCHANGED <<rq, callLog, wr, sc_up, crawlVars, syncVars, itemVars>>

(***************************************************************************)
(* One call of download_all, on a fresh installation or on one where an    *)
(* earlier run has downloaded drama 1 completely, against an origin with   *)
(* drama 1 of MaxUnits episodes and drama 2 of one episode; the listing    *)
(* may repeat any page.                                                    *)
(***************************************************************************)
Drama(id, c) == [bookId |-> id, chapterCount |-> c]

ScEpisodesOf(d) == IF d = Decimal(1) THEN MaxUnits ELSE 1

ScListings ==
    LET d1 == Drama(IdInt(1), MaxUnits)
        d2 == Drama(IdInt(2), 1)
    IN {[list |-> <<>>, isMore |-> FALSE]}
       \cup {[list |-> l, isMore |-> m] : l \in {<<d1>>, <<d1, d2>>}, m \in BOOLEAN}

ScDetails == {[kind |-> "none", n |-> 0], [kind |-> "ok", n |-> ScEpisodesOf(sc.drama_id)]}

ScXfers ==
    {[kind |-> "ok", sz |-> MaxSize], [kind |-> "http_err", sz |-> 0],
     [kind |-> "exc_mid", sz |-> 0]}

\* What a complete download of drama 1 leaves behind.
AfterDrama1 ==
    [files |-> [k \in {<<Decimal(1), u>> : u \in 1..MaxUnits} |-> File(MaxSize)],
     master |-> UpsertMaster(<<>>, Decimal(1), MaxUnits),
     history |-> [downloaded_drama_ids |-> <<Decimal(1)>>,
                  downloaded_episode_ids |-> [u \in 1..MaxUnits |-> EpId(Decimal(1), u)]]]

InitScraper ==
    /\ CrawlIdle
    /\ SyncIdle
    /\ histFile = HistAbsent
    /\ cur_book = Book(NoId, 0)
    /\ pb_pc = "idle"
    /\ pb_ret = FALSE
    /\ total_chapters = 0
    /\ ust = <<>>
    /\ success_count = 0
    /\ hist0 = HistAbsent
    /\ save_state = "none"
    /\ netLog = {}
    /\ rq = RqIdle
    /\ callLog = [store0 |-> HistAbsent, calls |-> <<>>]
    /\ wr = WrIdle
    /\ sc_up = TRUE
    /\ sc = ScIdle
    /\ scLog = ScLogIdle
    /\ \/ /\ files = <<>>
          /\ master_excel = <<>>
          /\ jsonFile = JsonAbsent
       \/ /\ files = AfterDrama1.files
          /\ master_excel = AfterDrama1.master
          /\ jsonFile = JsonOk(AfterDrama1.history)
    /\ sc_history = sc_load_history(jsonFile)

ScraperStart == \E only_new \in BOOLEAN : ScDownloadAll(only_new)

ScraperList == \E resp \in ScListings : sc.page <= MaxScPages /\ ScList(resp)

ScraperDetail == \E detail \in ScDetails, chapters \in ScDetails : ScDetail(detail, chapters)

ScraperEpisode == \E watch \in BOOLEAN, x \in ScXfers : ScEpisode(watch, x)

NextScraper ==
    \/ ScraperStart
    \/ ScraperList
    \/ ScNextDrama
    \/ ScraperDetail
    \/ ScraperEpisode
    \/ ScFinish

SpecScraper == InitScraper /\ [][NextScraper]_vars

(***************************************************************************)
(* One call of download_all against an origin whose detail, watch and      *)
(* media endpoints always answer, followed for one page of new dramas,     *)
(* DUP_LIMIT pages that repeat it and the page after those.                *)
(***************************************************************************)
LoopList == \E resp \in ScListings : sc.page <= DUP_LIMIT + 2 /\ ScList(resp)

LoopDetail ==
    LET d == [kind |-> "ok", n |-> ScEpisodesOf(sc.drama_id)] IN ScDetail(d, d)

LoopEpisode == ScEpisode(TRUE, [kind |-> "ok", sz |-> MaxSize])

NextLoop ==
    \/ ScraperStart
    \/ LoopList
    \/ ScNextDrama
    \/ LoopDetail
    \/ LoopEpisode
    \/ ScFinish

SpecLoop == InitScraper /\ [][NextLoop]_vars

(***************************************************************************)
(* Claims on the scraper.                                                  *)
(***************************************************************************)
\* C26: a drama whose detail cannot be fetched ends only its own
\* download_drama call: no exception leaves download_all.
C26_DramaFailureLocal == sc.pc # "raised"

\* The file download_file found was left by a transfer that broke off.
FoundPartial(dl) == dl.local.ex /\ dl.local.sz # MaxSize

\* C28: a call of download_file that finds the leftover of a transfer that
\* failed part-way does not report success unless it has issued a new
\* transfer.
C28_RetryAfterPartial ==
    (scLog.dl.ok /\ FoundPartial(scLog.dl)) => scLog.dl.requested

\* C29: when download_drama has returned, the 'Episodes Downloaded' value
\* of the drama in the master list is not inflated: it exceeds neither the
\* number of episode files in the drama's folder nor the number of episodes
\* of the drama.
C29_CountNotInflated ==
    sc.pc = "ret" =>
        /\ master_excel[sc.drama_id] <= Cardinality(EpisodeFiles(sc.drama_id))
        /\ master_excel[sc.drama_id] <= ScEpisodesOf(sc.drama_id)

\* C30: download_all requests no page after DUP_LIMIT consecutive pages
\* that listed only dramas it had already seen.
C30_StopsOnRepeats == scLog.repeats <= DUP_LIMIT

(***************************************************************************)
(* Claim on the aggregation of unit results.                               *)
(***************************************************************************)
\* The units whose result the main thread has taken and that returned
\* success.
CountedOk == {u \in UnitsIn("counted") : ust[u].ok}

\* C31: success_count is at every moment the number of collected units
\* that returned success, and at the return of the call the number of all
\* units that returned success, whatever the order in which the workers
\* finish and the results are collected.  It changes only in a step of the
\* collecting thread, by exactly one, for a unit collected in that step;
\* a unit once collected is never collected again.
C31_CountExact ==
    /\ [](/\ success_count = Cardinality(CountedOk)
          /\ (pb_pc = "ret" /\ pb_ret) =>
                /\ AllCounted
                /\ success_count = Cardinality(Succeeded))
    /\ [][/\ (pb_pc = "pool" /\ success_count' # success_count) =>
                /\ success_count' = success_count + 1
                /\ \E u \in UnitsIn("done") :
                      /\ ust[u].ok
                      /\ ust' = [ust EXCEPT ![u].st = "counted"]
          /\ \A u \in 1..Len(ust) :
                (pb_pc = "pool" /\ ust[u].st = "counted" /\ Len(ust') = Len(ust))
                   => ust'[u] = ust[u]]_vars

\* C31 witness: the second unit finished first and its success has been
\* counted while the first unit is still in a worker's hands.
C31_Witness ==
    /\ pb_pc = "pool"
    /\ Len(ust) = 2
    /\ ust[2].st = "counted" /\ ust[2].ok
    /\ ust[1].st \in {"running", "probed"}
    /\ success_count = 1

====
